---- MODULE Spec2Model ----
(***************************************************************************)
(* A model of the track pipeline of lyrafy: the deduplicator               *)
(* (utils/deduplication.ts), the taste profiler, candidate generator and   *)
(* similarity scorer (services/aiMusicService.ts, driven by HomeScreen's   *)
(* handleVibeFromTaste) and the preview reconciler (findDeezerPreviews of  *)
(* VibeModeScreen, loadPlaylistTracks of PlaylistDetailScreen).            *)
(*                                                                         *)
(* JavaScript strings are sequences of one-character strings, so that      *)
(* toLowerCase, trim and includes are computed and not assumed.            *)
(***************************************************************************)
EXTENDS Integers, Sequences, FiniteSets, TLC

VARIABLES
    \* ---- deduplicator (utils/deduplication.ts)
    tracks,          \* the argument of removeDuplicateTracksByName
    uniqueTracks,    \* its return value
    dedupCalls,      \* how many times the function has been applied
    \* ---- aiMusicService (services/aiMusicService.ts)
    tasteProfile,    \* this.tasteProfile: <<>> for null, else <<profile>>
    westOfUTC,       \* whether the device's time zone is behind UTC
    analyzeResult,   \* the analyzeMusicTaste calls so far, oldest first: argument,
                     \* this.tasteProfile before and after, and the outcome
    analyses,        \* number of analyzeMusicTaste calls made directly
    similar,         \* value of the last calculateSimilarity call, <<>> before
    scoredAgainst,   \* this.tasteProfile as that call read it
    backendSimilar,  \* last calculateBasicSimilarity of AIMusicServiceBackend:
                     \* <<>> before, else <<[stored, result]>>
    \* ---- HomeScreen.handleVibeFromTaste and the findSimilarTracks calls it makes
    isAnalyzing,     \* isAnalyzing of the mounted HomeScreen
    homeInstance,    \* which HomeScreen instance is mounted
    sessions,        \* how many taste-based runs the user starts
    searchPages,     \* the pages a Spotify search may answer with
    run,             \* per run: position, arguments and locals of the call
    storeFeedTracks, \* feedTracks of the music store
    \* ---- VibeModeScreen (load effect, findDeezerPreviews, exitVibeMode)
    isMountedRef,    \* isMountedRef.current
    feedTracks,      \* the screen's feedTracks state, written by setLocalTracks
    pass,            \* position and locals of the findDeezerPreviews call
    \* ---- PlaylistDetailScreen.loadPlaylistTracks
    playlist,        \* position and locals of the call, and the tracks state
    \* ---- VibeModeScreen.handleSwipe
    currentIndex,    \* the screen's currentIndex state
    swiping,         \* <<>>, or the feed length a right swipe in progress has read
    \* ---- SpotifyService (getRecommendationsForVibeMode, getRecommendationsBasedOnTracks)
    rec,             \* position and locals of the recommendation call
    \* ---- SpotifyService.makeRequest and the token store
    request,         \* position of the call, the tokens stored, what it ended with
    \* ---- useMusicStore (likeTrack, unlikeTrack, isTrackLiked)
    likes,           \* likedTracks, and the calls made so far
    \* ---- AudioService.loadTrack
    audio            \* this.sound, the sounds created, and every call's position

dedupVars == <<tracks, uniqueTracks, dedupCalls>>
serviceVars == <<tasteProfile, westOfUTC, analyzeResult, analyses, similar, scoredAgainst,
                 backendSimilar>>

runVars == <<isAnalyzing, homeInstance, sessions, searchPages, run, storeFeedTracks>>

previewVars == <<isMountedRef, feedTracks, pass, playlist>>

swipeVars == <<currentIndex, swiping>>

restVars == <<swipeVars, rec, request, likes, audio>>

vars == <<dedupVars, serviceVars, runVars, previewVars, restVars>>

(***************************************************************************)
(* Bounds, and each part of the program before it is used                  *)
(***************************************************************************)
MaxRuns == 2
MaxRemounts == 1
Runs == 1..MaxRuns

IdleRun ==
    [pc |-> "idle", home |-> 0, topTracks |-> <<>>, excludeTrackIds |-> <<>>,
     phase |-> "none", rest |-> <<>>, pending |-> <<>>, similarTracks |-> <<>>,
     issued |-> 0, allFailed |-> TRUE, noneSurvived |-> TRUE, excludedIn |-> {},
     threw |-> FALSE, result |-> <<>>, limit |-> 0, primaryEnd |-> <<>>]

DedupIdle == tracks = <<>> /\ uniqueTracks = <<>> /\ dedupCalls = 0

ServiceIdle ==
    /\ tasteProfile = <<>>
    /\ westOfUTC = FALSE
    /\ analyzeResult = <<>>
    /\ analyses = 0
    /\ similar = <<>>
    /\ scoredAgainst = <<>>
    /\ backendSimilar = <<>>

RunsIdle ==
    /\ isAnalyzing = FALSE
    /\ homeInstance = 0
    /\ sessions = 0
    /\ searchPages = {}
    /\ run = [r \in Runs |-> IdleRun]
    /\ storeFeedTracks = <<>>

\* findDeezerPreviews not called: the locals of a call, and what the model
\* records about it (searched: the indices a search was issued for; applied:
\* tracksWithPreviews.length at the last feed update; atFlip: the feeds and
\* the position when isMountedRef.current became false; matches: for every
\* entry of tracksWithPreviews the index it came from and its bestMatch;
\* answers: for every search that has answered, the index and the answer;
\* emitted: the lists the call has set the feeds to, oldest first).
IdlePass ==
    [pc |-> "absent", spotifyTracks |-> <<>>, i |-> 0, tracksWithPreviews |-> <<>>,
     outstanding |-> 0, searched |-> <<>>, applied |-> 0,
     setsAfterFlip |-> 0, atFlip |-> <<>>, matches |-> <<>>, answers |-> <<>>,
     emitted |-> <<>>]

IdlePlaylist ==
    [pc |-> "absent", playlistTracks |-> <<>>, pending |-> {}, resolved |-> <<>>,
     searched |-> {}, tracks |-> <<>>, matches |-> <<>>, answers |-> <<>>]

PreviewIdle ==
    /\ isMountedRef = TRUE
    /\ feedTracks = <<>>
    /\ pass = IdlePass
    /\ playlist = IdlePlaylist

\* No swipe made, no recommendation call, no request, nothing liked, no sound.
SwipeIdle == currentIndex = 0 /\ swiping = <<>>

IdleRec ==
    [pc |-> "absent", fn |-> "none", plan |-> <<>>, catalog |-> "none", k |-> 0,
     failed |-> 0, allTracks |-> <<>>, result |-> <<>>]
RecIdle == rec = IdleRec

\* makeRequest not called (accessToken, refreshToken: the items of the
\* SecureStore, <<>> for none; sent: the token of the fetch in flight; calls:
\* the makeRequest calls of the chain, counted up to MaxCalls; ended: what
\* the outermost call returned or threw).
IdleRequest ==
    [pc |-> "absent", accessToken |-> <<>>, refreshToken |-> <<>>, sent |-> <<>>,
     calls |-> 0, ended |-> ""]
RequestIdle == request = IdleRequest

\* The music store as created (calls: the likeTrack and unlikeTrack calls
\* made so far, oldest first, each with the track id it was made for).
IdleLikes == [likedTracks |-> <<>>, calls |-> <<>>]
LikesIdle == likes = IdleLikes

\* The AudioService as constructed (sound: this.sound, <<>> for null;
\* loaded: the sounds created and not unloaded; calls: the loadTrack calls,
\* in the order they were made, each with its position in the function).
IdleAudio == [sound |-> <<>>, isInitialized |-> FALSE, loaded |-> {}, calls |-> <<>>]
AudioIdle == audio = IdleAudio

RestIdle == SwipeIdle /\ RecIdle /\ RequestIdle /\ LikesIdle /\ AudioIdle


(***************************************************************************)
(* Strings                                                                 *)
(***************************************************************************)
UpperCase == <<"A","B","C","D","E","F","G","H","I","J","K","L","M",
               "N","O","P","Q","R","S","T","U","V","W","X","Y","Z">>
LowerCase == <<"a","b","c","d","e","f","g","h","i","j","k","l","m",
               "n","o","p","q","r","s","t","u","v","w","x","y","z">>

\* The characters String.prototype.trim removes (those the model's names use).
WhiteSpace == {" ", "\t", "\n"}

toLowerChar(c) ==
    IF \E i \in DOMAIN UpperCase : UpperCase[i] = c
    THEN LowerCase[CHOOSE i \in DOMAIN UpperCase : UpperCase[i] = c]
    ELSE c

\* String.prototype.toLowerCase
toLowerCase(s) == [i \in DOMAIN s |-> toLowerChar(s[i])]

\* String.prototype.trim: drop the leading and the trailing white space.
trim(s) ==
    LET keep == {i \in DOMAIN s : s[i] \notin WhiteSpace} IN
    IF keep = {} THEN <<>>
    ELSE LET lo == CHOOSE i \in keep : \A j \in keep : i <= j
             hi == CHOOSE i \in keep : \A j \in keep : i >= j
         IN SubSeq(s, lo, hi)

\* String.prototype.includes: sub occurs in s as a contiguous substring.
includes(s, sub) ==
    \E i \in 0..(Len(s) - Len(sub)) : SubSeq(s, i + 1, i + Len(sub)) = sub

\* Array.prototype.includes on a list of values.
arrayIncludes(list, x) == \E i \in DOMAIN list : list[i] = x

(***************************************************************************)
(* Deduplicator                                                            *)
(***************************************************************************)
MaxLen == 3

Hello      == <<"H","e","l","l","o">>
helloSpace == <<"h","e","l","l","o"," ">>
spaceHELLO == <<" ","H","E","L","L","O">>
hel_lo     == <<"h","e","l"," ","l","o">>
Bye        == <<"B","y","e">>

DedupIds == {"s1", "s2", "s3"}

\* The tracks a candidate list is drawn from: the same id under two titles,
\* the same title (up to case and outer white space) under several ids.
DedupTracks ==
    { [id |-> "s1", name |-> Hello],
      [id |-> "s2", name |-> helloSpace],
      [id |-> "s3", name |-> spaceHELLO],
      [id |-> "s1", name |-> Bye],
      [id |-> "s2", name |-> hel_lo],
      [id |-> "s3", name |-> Bye] }

SeqsUpTo(S, n) == UNION {[1..k -> S] : k \in 0..n}

\* track.name.toLowerCase().trim()
normalizedName_noTrim(track) == toLowerCase(track.name)

normalizedName(track) == trim(toLowerCase(track.name))

RECURSIVE byNameLoop(_, _, _, _)
byNameLoop(ts, i, seen, unique) ==
    IF i > Len(ts) THEN unique
    ELSE LET key == normalizedName(ts[i]) IN
         IF key \notin seen
         THEN byNameLoop(ts, i + 1, seen \cup {key}, Append(unique, ts[i]))
         ELSE byNameLoop(ts, i + 1, seen, unique)

\* A loop that lets a later duplicate replace the one kept so far.
RECURSIVE byNameLoop_keepLast(_, _, _, _)
byNameLoop_keepLast(ts, i, seen, unique) ==
    IF i > Len(ts) THEN unique
    ELSE LET key == normalizedName(ts[i]) IN
         IF \A j \in (i + 1)..Len(ts) : normalizedName(ts[j]) # key
         THEN byNameLoop_keepLast(ts, i + 1, seen \cup {key}, Append(unique, ts[i]))
         ELSE byNameLoop_keepLast(ts, i + 1, seen, unique)

removeDuplicateTracksByName_keepLast(ts) == byNameLoop_keepLast(ts, 1, {}, <<>>)

removeDuplicateTracksByName(ts) == byNameLoop(ts, 1, {}, <<>>)

InitDedup ==
    /\ RestIdle
    /\ tracks \in SeqsUpTo(DedupTracks, MaxLen)
    /\ uniqueTracks = <<>>
    /\ dedupCalls = 0
    /\ ServiceIdle
    /\ RunsIdle
    /\ PreviewIdle

\* const uniqueTracks = removeDuplicateTracksByName(tracks)
Dedupe ==
    /\ dedupCalls = 0
    /\ uniqueTracks' = removeDuplicateTracksByName(tracks)
    /\ dedupCalls' = 1
    /\ UNCHANGED <<tracks, serviceVars, runVars, previewVars, restVars>>

\* The result is fed to the function again.
DedupeAgain ==
    /\ dedupCalls = 1
    /\ tracks' = uniqueTracks
    /\ uniqueTracks' = removeDuplicateTracksByName(uniqueTracks)
    /\ dedupCalls' = 2
    /\ UNCHANGED <<serviceVars, runVars, previewVars, restVars>>

NextDedup == Dedupe \/ DedupeAgain

SpecDedup == InitDedup /\ [][NextDedup]_vars

RECURSIVE byIdAndNameLoop(_, _, _, _, _)
byIdAndNameLoop(ts, i, seenIds, seenNames, unique) ==
    IF i > Len(ts) THEN unique
    ELSE LET key == normalizedName(ts[i]) IN
         IF ts[i].id \notin seenIds /\ key \notin seenNames
         THEN byIdAndNameLoop(ts, i + 1, seenIds \cup {ts[i].id}, seenNames \cup {key},
                              Append(unique, ts[i]))
         ELSE byIdAndNameLoop(ts, i + 1, seenIds, seenNames, unique)

\* A loop that keeps a track when its id or its name is new.
RECURSIVE byIdOrNameLoop(_, _, _, _, _)
byIdOrNameLoop(ts, i, seenIds, seenNames, unique) ==
    IF i > Len(ts) THEN unique
    ELSE LET key == normalizedName(ts[i]) IN
         IF ts[i].id \notin seenIds \/ key \notin seenNames
         THEN byIdOrNameLoop(ts, i + 1, seenIds \cup {ts[i].id}, seenNames \cup {key},
                             Append(unique, ts[i]))
         ELSE byIdOrNameLoop(ts, i + 1, seenIds, seenNames, unique)

removeDuplicateTracksByIdAndName_either(ts) == byIdOrNameLoop(ts, 1, {}, {}, <<>>)

removeDuplicateTracksByIdAndName(ts) == byIdAndNameLoop(ts, 1, {}, {}, <<>>)

\* const uniqueTracks = removeDuplicateTracksByIdAndName(tracks)
DedupeByIdAndName ==
    /\ dedupCalls = 0
    /\ uniqueTracks' = removeDuplicateTracksByIdAndName(tracks)
    /\ dedupCalls' = 1
    /\ UNCHANGED <<tracks, serviceVars, runVars, previewVars, restVars>>

NextDedupByIdAndName == DedupeByIdAndName

SpecDedupByIdAndName == InitDedup /\ [][NextDedupByIdAndName]_vars

(***************************************************************************)
(* Claims about the deduplicator                                           *)
(***************************************************************************)
TitleKey(t) == trim(toLowerCase(t.name))

DistinctKeys(ts) ==
    \A i, j \in DOMAIN ts : i # j => TitleKey(ts[i]) # TitleKey(ts[j])

\* C1: deduplicating by name is idempotent, and no two tracks of the result
\* have the same normalized title (name lower-cased, then trimmed).
C1_DedupIdempotentUnique ==
    /\ dedupCalls >= 1 => DistinctKeys(uniqueTracks)
    /\ dedupCalls = 2 => uniqueTracks = tracks

\* A second application has run on a result that had dropped a duplicate.
C1_Witness ==
    /\ dedupCalls = 2
    /\ Len(tracks) = 2
    /\ \E i \in DOMAIN tracks : tracks[i].name = helloSpace

\* The indices of the first track of every normalized title.
FirstIdx(ts) ==
    {i \in DOMAIN ts : \A j \in 1..(i - 1) : TitleKey(ts[j]) # TitleKey(ts[i])}

RECURSIVE SelectIdx(_, _, _)
SelectIdx(ts, idx, i) ==
    IF i > Len(ts) THEN <<>>
    ELSE (IF i \in idx THEN <<ts[i]>> ELSE <<>>) \o SelectIdx(ts, idx, i + 1)

\* C2: the result holds exactly the first input track of every normalized
\* title, in input order; "Hello" and "hello " collapse to the earlier one.
C2_KeepsFirstInOrder ==
    dedupCalls = 1 => uniqueTracks = SelectIdx(tracks, FirstIdx(tracks), 1)

\* "hello " came before "Hello" (and "Bye" in between): "hello " survives.
C2_Witness ==
    /\ dedupCalls = 1
    /\ Len(tracks) = 3
    /\ tracks[1].name = helloSpace /\ tracks[3].name = Hello
    /\ Len(uniqueTracks) = 2
    /\ uniqueTracks[1] = tracks[1]

(***************************************************************************)
(* Taste profiler (services/aiMusicService.ts)                             *)
(*                                                                         *)
(* A track is [id, name, artists, release_date, popularity, preview_url].  *)
(* release_date holds the numeric components Spotify sends (<<y>>,         *)
(* <<y, m>> or <<y, m, d>>), <<>> standing for a date that does not parse. *)
(* Scores and averages are exact fractions [num, den].                     *)
(***************************************************************************)
\* The keywords of inferGenresFromTrack and determineMoodsFromTracks.
k_rap == <<"r","a","p">>
k_hip == <<"h","i","p">>
k_rock == <<"r","o","c","k">>
k_pop == <<"p","o","p">>
k_jazz == <<"j","a","z","z">>
k_electronic == <<"e","l","e","c","t","r","o","n","i","c">>
k_country == <<"c","o","u","n","t","r","y">>
k_classical == <<"c","l","a","s","s","i","c","a","l">>
k_blues == <<"b","l","u","e","s">>
k_folk == <<"f","o","l","k">>
k_reggae == <<"r","e","g","g","a","e">>
k_happy == <<"h","a","p","p","y">>
k_joy == <<"j","o","y">>
k_smile == <<"s","m","i","l","e">>
k_dance == <<"d","a","n","c","e">>
k_party == <<"p","a","r","t","y">>
k_celebration == <<"c","e","l","e","b","r","a","t","i","o","n">>
k_energy == <<"e","n","e","r","g","y">>
k_power == <<"p","o","w","e","r">>
k_fire == <<"f","i","r","e">>
k_metal == <<"m","e","t","a","l">>
k_intense == <<"i","n","t","e","n","s","e">>
k_calm == <<"c","a","l","m">>
k_peace == <<"p","e","a","c","e">>
k_quiet == <<"q","u","i","e","t">>
k_chill == <<"c","h","i","l","l">>
k_soft == <<"s","o","f","t">>
k_gentle == <<"g","e","n","t","l","e">>
k_sad == <<"s","a","d">>
k_lonely == <<"l","o","n","e","l","y">>
k_tears == <<"t","e","a","r","s">>
k_heartbreak == <<"h","e","a","r","t","b","r","e","a","k">>
k_melancholy == <<"m","e","l","a","n","c","h","o","l","y">>
k_blue == <<"b","l","u","e">>

\* The genre and mood labels.
L_HipHop == <<"H","i","p","-","H","o","p">>
L_Rock == <<"R","o","c","k">>
L_Pop == <<"P","o","p">>
L_Jazz == <<"J","a","z","z">>
L_Electronic == <<"E","l","e","c","t","r","o","n","i","c">>
L_Country == <<"C","o","u","n","t","r","y">>
L_Classical == <<"C","l","a","s","s","i","c","a","l">>
L_Blues == <<"B","l","u","e","s">>
L_Folk == <<"F","o","l","k">>
L_Reggae == <<"R","e","g","g","a","e">>
L_Happy == <<"H","a","p","p","y">>
L_Upbeat == <<"U","p","b","e","a","t">>
L_Energetic == <<"E","n","e","r","g","e","t","i","c">>
L_Intense == <<"I","n","t","e","n","s","e">>
L_Calm == <<"C","a","l","m">>
L_Relaxed == <<"R","e","l","a","x","e","d">>
L_Melancholic == <<"M","e","l","a","n","c","h","o","l","i","c">>
L_Sad == <<"S","a","d">>
L_Popular == <<"P","o","p","u","l","a","r">>
L_Mainstream == <<"M","a","i","n","s","t","r","e","a","m">>
L_Moderate == <<"M","o","d","e","r","a","t","e">>
L_Balanced == <<"B","a","l","a","n","c","e","d">>
L_Underground == <<"U","n","d","e","r","g","r","o","u","n","d">>
L_Alternative == <<"A","l","t","e","r","n","a","t","i","v","e">>
L_Diverse == <<"D","i","v","e","r","s","e">>
L_Mixed == <<"M","i","x","e","d">>

Min(a, b) == IF a <= b THEN a ELSE b
Max(a, b) == IF a >= b THEN a ELSE b
Abs(a) == IF a >= 0 THEN a ELSE 0 - a

\* Array.prototype.slice(0, n)
slice(s, n) == SubSeq(s, 1, Min(n, Len(s)))

\* [...new Set(list)]: the first occurrence of every value, in order.
RECURSIVE uniqueInOrder(_)
uniqueInOrder(list) ==
    IF list = <<>> THEN <<>>
    ELSE LET front == uniqueInOrder(SubSeq(list, 1, Len(list) - 1))
             last == list[Len(list)]
         IN IF arrayIncludes(front, last) THEN front ELSE Append(front, last)

\* counts[key] = (counts[key] || 0) + 1 on an object, whose keys keep their
\* insertion order.
increment(counts, key) ==
    IF \E i \in DOMAIN counts : counts[i].key = key
    THEN [i \in DOMAIN counts |->
            IF counts[i].key = key
            THEN [key |-> key, count |-> counts[i].count + 1]
            ELSE counts[i]]
    ELSE Append(counts, [key |-> key, count |-> 1])

RECURSIVE countAll(_, _)
countAll(keys, counts) ==
    IF keys = <<>> THEN counts
    ELSE countAll(Tail(keys), increment(counts, Head(keys)))

\* Object.entries(counts).sort(([,a], [,b]) => b - a): a stable sort by
\* descending count.
RECURSIVE sortByCountDesc(_)
sortByCountDesc(entries) ==
    IF entries = <<>> THEN <<>>
    ELSE LET front == sortByCountDesc(SubSeq(entries, 1, Len(entries) - 1))
             e == entries[Len(entries)]
             before == {i \in DOMAIN front : front[i].count >= e.count}
             k == Cardinality(before)
         IN SubSeq(front, 1, k) \o <<e>> \o SubSeq(front, k + 1, Len(front))

keysOf(entries) == [i \in DOMAIN entries |-> entries[i].key]

inferGenresFromTrack(track) ==
    LET name == toLowerCase(track.name)
        artist == IF Len(track.artists) > 0
                  THEN toLowerCase(track.artists[1].name) ELSE <<>>
        has(k) == includes(name, k) \/ includes(artist, k)
        genres ==
            (IF includes(name, k_rap) \/ includes(name, k_hip) \/ includes(artist, k_rap)
             THEN <<L_HipHop>> ELSE <<>>)
            \o (IF has(k_rock) THEN <<L_Rock>> ELSE <<>>)
            \o (IF has(k_pop) THEN <<L_Pop>> ELSE <<>>)
            \o (IF has(k_jazz) THEN <<L_Jazz>> ELSE <<>>)
            \o (IF has(k_electronic) THEN <<L_Electronic>> ELSE <<>>)
            \o (IF has(k_country) THEN <<L_Country>> ELSE <<>>)
            \o (IF has(k_classical) THEN <<L_Classical>> ELSE <<>>)
            \o (IF has(k_blues) THEN <<L_Blues>> ELSE <<>>)
            \o (IF has(k_folk) THEN <<L_Folk>> ELSE <<>>)
            \o (IF has(k_reggae) THEN <<L_Reggae>> ELSE <<>>)
    IN IF Len(genres) = 0 THEN <<L_Pop>> ELSE genres

\* The labels counted by extractGenres: those of every track, once per
\* artist the track lists.
RECURSIVE genreLabels(_)
genreLabels(ts) ==
    IF ts = <<>> THEN <<>>
    ELSE LET track == Head(ts)
             perArtist == [a \in DOMAIN track.artists |-> inferGenresFromTrack(track)]
             RECURSIVE flat(_)
             flat(ls) == IF ls = <<>> THEN <<>> ELSE Head(ls) \o flat(Tail(ls))
         IN flat(perArtist) \o genreLabels(Tail(ts))

extractGenres(ts) ==
    keysOf(slice(sortByCountDesc(countAll(genreLabels(ts), <<>>)), 10))

\* new Date(release_date).getFullYear(): <<>> for NaN, else <<year>>. A date
\* without a time is midnight UTC, so west of Greenwich the first of January
\* falls in the year before.
getFullYear(release_date, west) ==
    IF release_date = <<>> THEN <<>>
    ELSE LET y == release_date[1]
             m == IF Len(release_date) >= 2 THEN release_date[2] ELSE 1
             d == IF Len(release_date) >= 3 THEN release_date[3] ELSE 1
         IN IF west /\ m = 1 /\ d = 1 THEN <<y - 1>> ELSE <<y>>

\* String(n) for n >= 0
RECURSIVE digits(_)
digits(n) ==
    LET d == <<"0","1","2","3","4","5","6","7","8","9">>[(n % 10) + 1]
    IN IF n < 10 THEN <<d>> ELSE Append(digits(n \div 10), d)

\* `${Math.floor(year / 10) * 10}s`
decadeStr(year) == Append(digits((year \div 10) * 10), "s")

RECURSIVE decadeLabels(_, _)
decadeLabels(ts, west) ==
    IF ts = <<>> THEN <<>>
    ELSE LET year == getFullYear(Head(ts).release_date, west)
         IN (IF year # <<>> THEN <<decadeStr(year[1])>> ELSE <<>>)
            \o decadeLabels(Tail(ts), west)

extractDecades(ts, west) ==
    keysOf(slice(sortByCountDesc(countAll(decadeLabels(ts, west), <<>>)), 3))

RECURSIVE sum(_)
sum(values) == IF values = <<>> THEN 0 ELSE Head(values) + sum(Tail(values))

isValidNumber(v) == v \in Int

analyzeFeature(values) ==
    LET validValues == SelectSeq(values, isValidNumber)
        range == {validValues[i] : i \in DOMAIN validValues}
    IN IF Len(validValues) = 0
       THEN [min |-> 0, max |-> 0, average |-> [num |-> 0, den |-> 1]]
       ELSE [min |-> CHOOSE v \in range : \A w \in range : v <= w,
             max |-> CHOOSE v \in range : \A w \in range : v >= w,
             average |-> [num |-> sum(validValues), den |-> Len(validValues)]]

\* trackNames.join(' ')
RECURSIVE join(_)
join(names) ==
    IF names = <<>> THEN <<>>
    ELSE IF Len(names) = 1 THEN Head(names)
    ELSE Head(names) \o <<" ">> \o join(Tail(names))

determineMoodsFromTracks(ts) ==
    LET allText == join([i \in DOMAIN ts |-> toLowerCase(ts[i].name)])
        has(k) == includes(allText, k)
        total == sum([i \in DOMAIN ts |-> ts[i].popularity])
        byText ==
            (IF has(k_happy) \/ has(k_joy) \/ has(k_smile)
                \/ has(k_dance) \/ has(k_party) \/ has(k_celebration)
             THEN <<L_Happy, L_Upbeat>> ELSE <<>>)
            \o (IF has(k_energy) \/ has(k_power) \/ has(k_fire)
                   \/ has(k_rock) \/ has(k_metal) \/ has(k_intense)
                THEN <<L_Energetic, L_Intense>> ELSE <<>>)
            \o (IF has(k_calm) \/ has(k_peace) \/ has(k_quiet)
                   \/ has(k_chill) \/ has(k_soft) \/ has(k_gentle)
                THEN <<L_Calm, L_Relaxed>> ELSE <<>>)
            \o (IF has(k_sad) \/ has(k_lonely) \/ has(k_tears)
                   \/ has(k_heartbreak) \/ has(k_melancholy) \/ has(k_blue)
                THEN <<L_Melancholic, L_Sad>> ELSE <<>>)
        \* avgPopularity > 70, avgPopularity > 40 with avgPopularity = total / length
        byPopularity ==
            IF total > 70 * Len(ts) THEN <<L_Popular, L_Mainstream>>
            ELSE IF total > 40 * Len(ts) THEN <<L_Moderate, L_Balanced>>
            ELSE <<L_Underground, L_Alternative>>
        moods == byText \o byPopularity
    IN slice(uniqueInOrder(IF Len(moods) = 0 THEN <<L_Diverse, L_Mixed>> ELSE moods), 5)

RECURSIVE artistNames(_)
artistNames(ts) ==
    IF ts = <<>> THEN <<>>
    ELSE [a \in DOMAIN Head(ts).artists |-> Head(ts).artists[a].name]
         \o artistNames(Tail(ts))

\* The profile analyzeMusicTaste stores for a non-empty list of tracks (the
\* audio-feature placeholders, which nothing reads, are left out).
buildProfile(topTracks, west) ==
    [genres |-> extractGenres(topTracks),
     moods |-> determineMoodsFromTracks(topTracks),
     popularity |-> analyzeFeature([i \in DOMAIN topTracks |-> topTracks[i].popularity]),
     artists |-> slice(uniqueInOrder(artistNames(topTracks)), 20),
     decades |-> extractDecades(topTracks, west)]

(***************************************************************************)
(* Similarity scorer (services/aiMusicService.ts)                          *)
(*                                                                         *)
(* similarityScore is the fraction num / den with den = 1000 * n, n the    *)
(* number of tracks the profile's popularity average was taken over.       *)
(***************************************************************************)
ArtistWeight == 500
DecadeWeight == 300
GenreWeight == 200
BonusWeight == 100

Reason(text) == [text |-> text, arg |-> <<>>]

\* `From preferred decade (${decadeStr})`
DecadeReason(decade) == [text |-> "From preferred decade", arg |-> decade]

hasPreferredArtist(profile, track) ==
    \E a \in DOMAIN track.artists : arrayIncludes(profile.artists, track.artists[a].name)

preferredDecade(profile, track, west) ==
    LET trackYear == getFullYear(track.release_date, west)
    IN IF trackYear # <<>> /\ arrayIncludes(profile.decades, decadeStr(trackYear[1]))
       THEN <<decadeStr(trackYear[1])>> ELSE <<>>

hasGenreKeyword(profile, track) ==
    LET trackName == toLowerCase(track.name)
        preferredGenres == [i \in DOMAIN profile.genres |-> toLowerCase(profile.genres[i])]
    IN \E i \in DOMAIN preferredGenres :
          \/ includes(trackName, preferredGenres[i])
          \/ includes(preferredGenres[i], trackName)

\* Math.max(0, 1 - popularityDiff / 100) * 0.1 in units of 1 / (1000 * n):
\* with average = num / n, popularityDiff = |popularity * n - num| / n.
popularityPart(profile, track) ==
    LET avg == profile.popularity.average
        popularityDiff == Abs(track.popularity * avg.den - avg.num)
    IN Max(0, 100 * avg.den - popularityDiff)

\* Several reasons cost a track part of its score.
multiSignalBonus_penalty(reasons) == IF Len(reasons) >= 2 THEN 0 - 5 * BonusWeight ELSE 0

\* The bonus is given from three reasons on.
multiSignalBonus_three(reasons) == IF Len(reasons) >= 3 THEN BonusWeight ELSE 0

\* if (reasons.length >= 2) score += 0.1
multiSignalBonus(reasons) == IF Len(reasons) >= 2 THEN BonusWeight ELSE 0

\* The bonus is given a reason of its own, pushed after the genre check.
signalReasons_withBonus(artist, decade, genre) ==
    LET pushed == (IF artist THEN <<Reason("By preferred artist")>> ELSE <<>>)
                  \o (IF decade # <<>> THEN <<DecadeReason(decade[1])>> ELSE <<>>)
    IN IF genre THEN pushed \o <<Reason("Matches multiple criteria")>>
                               \o <<Reason("Contains preferred genre keywords")>>
       ELSE pushed

\* The reasons.push calls, in the order the checks are made.
signalReasons(artist, decade, genre) ==
    (IF artist THEN <<Reason("By preferred artist")>> ELSE <<>>)
    \o (IF decade # <<>> THEN <<DecadeReason(decade[1])>> ELSE <<>>)
    \o (IF genre THEN <<Reason("Contains preferred genre keywords")>> ELSE <<>>)

\* No upper limit on the score.
clamp_none(score, n) == score

\* Math.min(1, score), for a score in units of 1 / (1000 * n)
clamp(score, n) == Min(1000 * n, score)

calculateBasicSimilarity(stored, track, west) ==
    IF stored = <<>>
    THEN [track |-> track, similarityScore |-> [num |-> 0, den |-> 1], reasons |-> <<>>]
    ELSE LET profile == stored[1]
             n == profile.popularity.average.den
             artist == hasPreferredArtist(profile, track)
             decade == preferredDecade(profile, track, west)
             genre == hasGenreKeyword(profile, track)
             reasons == signalReasons(artist, decade, genre)
             score ==
                 (IF artist THEN ArtistWeight * n ELSE 0)
                 + (IF decade # <<>> THEN DecadeWeight * n ELSE 0)
                 + (IF genre THEN GenreWeight * n ELSE 0)
                 + popularityPart(profile, track)
                 + multiSignalBonus(reasons) * n
         IN [track |-> track,
             similarityScore |-> [num |-> clamp(score, n), den |-> 1000 * n],
             reasons |-> slice(reasons, 3)]

\* similarityScore > t / 1000
scoreAbove(s, t) == s.similarityScore.num * 1000 > t * s.similarityScore.den

(***************************************************************************)
(* The tracks of the primary catalog                                       *)
(***************************************************************************)
NoPreview == ""

N_Drake == <<"D","r","a","k","e">>
N_Rocky == <<"R","o","c","k","y">>
N_Naughty == <<"N","a","u","g","h","t","y">>
N_Nobody == <<"N","o","b","o","d","y">>

Track(id, name, artist, date, popularity) ==
    [id |-> id, name |-> name, artists |-> <<[name |-> artist]>>,
     release_date |-> date, popularity |-> popularity, preview_url |-> NoPreview]

\* Listening history.
Trap  == Track("t1", <<"T","r","a","p">>, N_Drake, <<2016, 4, 29>>, 70)
Stone == Track("t2", <<"S","t","o","n","e">>, N_Rocky, <<1975>>, 40)

\* Candidates.
GodsPlan == Track("t3", <<"G","o","d","'","s"," ","P","l","a","n">>, N_Drake, <<2018, 1, 19>>, 75)
Hooray   == Track("t4", <<"H","i","p","-","H","o","p"," ","H","o","o","r","a","y">>, N_Naughty, <<1993, 1, 1>>, 60)
Lullaby  == Track("t5", <<"L","u","l","l","a","b","y">>, N_Nobody, <<>>, 10)
\* A title that is a genre label, by a listened-to artist, and the same artist
\* spelled in lower case.
n_drake  == <<"d","r","a","k","e">>
Banger   == Track("t7", <<"H","i","p","-","H","o","p">>, N_Drake, <<2015, 6, 1>>, 72)
Homage   == Track("t8", <<"H","o","m","a","g","e">>, n_drake, <<2001, 3, 9>>, 65)

Histories == {<<>>, <<Trap>>, <<Stone>>, <<Trap, Stone>>}
Candidates == {GodsPlan, Hooray, Lullaby, Trap, Stone, Banger, Homage}

MaxAnalyses == 3
\* The analyses made while the scorer is exercised.
MaxScoreAnalyses == 2

(***************************************************************************)
(* The service called directly: analyzeMusicTaste, then the scorer         *)
(***************************************************************************)
ServiceInit ==
    /\ tasteProfile = <<>>
    /\ westOfUTC \in BOOLEAN
    /\ analyzeResult = <<>>
    /\ analyses = 0
    /\ similar = <<>>
    /\ scoredAgainst = <<>>
    /\ backendSimilar = <<>>

InitScore == ServiceInit /\ DedupIdle /\ RunsIdle /\ PreviewIdle /\ RestIdle

\* A profiler that adds the artists of the list to those stored before.
analyzeMusicTaste_merging(stored, topTracks, west) ==
    IF Len(topTracks) = 0
    THEN [topTracks |-> topTracks, before |-> stored, threw |-> TRUE,
          profile |-> <<>>, after |-> stored]
    ELSE LET fresh == buildProfile(topTracks, west)
             merged == IF stored = <<>> THEN fresh
                       ELSE [fresh EXCEPT !.artists =
                                uniqueInOrder(stored[1].artists \o fresh.artists)]
         IN [topTracks |-> topTracks, before |-> stored, threw |-> FALSE,
             profile |-> <<merged>>, after |-> <<merged>>]

\* A profiler that answers an empty list with no profile and forgets the
\* stored one.
analyzeMusicTaste_resetting(stored, topTracks, west) ==
    IF Len(topTracks) = 0
    THEN [topTracks |-> topTracks, before |-> stored, threw |-> FALSE,
          profile |-> <<>>, after |-> <<>>]
    ELSE [topTracks |-> topTracks, before |-> stored, threw |-> FALSE,
          profile |-> <<buildProfile(topTracks, west)>>,
          after |-> <<buildProfile(topTracks, west)>>]

\* analyzeMusicTaste(topTracks) with this.tasteProfile = stored: whether it
\* throws, the profile it returns (<<>> when it throws) and this.tasteProfile
\* afterwards.
analyzeMusicTaste(stored, topTracks, west) ==
    IF Len(topTracks) = 0
    THEN \* throw new Error("No tracks provided for analysis")
         [topTracks |-> topTracks, before |-> stored, threw |-> TRUE,
          profile |-> <<>>, after |-> stored]
    ELSE [topTracks |-> topTracks, before |-> stored, threw |-> FALSE,
          profile |-> <<buildProfile(topTracks, west)>>,
          after |-> <<buildProfile(topTracks, west)>>]

\* aiMusicService.analyzeMusicTaste(topTracks)
AnalyzeMusicTaste(topTracks) ==
    /\ analyses < MaxAnalyses
    /\ analyses' = analyses + 1
    /\ LET call == analyzeMusicTaste(tasteProfile, topTracks, westOfUTC)
       IN /\ tasteProfile' = call.after
          /\ analyzeResult' = Append(analyzeResult, call)
    /\ UNCHANGED <<westOfUTC, similar, scoredAgainst, backendSimilar, dedupVars, runVars,
                   previewVars, restVars>>

\* this.calculateSimilarity(track)
CalculateSimilarity(track) ==
    /\ similar' = <<calculateBasicSimilarity(tasteProfile, track, westOfUTC)>>
    /\ scoredAgainst' = tasteProfile
    /\ UNCHANGED <<tasteProfile, westOfUTC, analyzeResult, analyses, backendSimilar,
                   dedupVars, runVars, previewVars, restVars>>

\* The profiles AIMusicServiceBackend may hold: null, or the keys of the
\* genre and artist preferences the backend reported.
BackendProfiles ==
    {<<>>,
     <<[genres |-> <<L_HipHop>>, artists |-> <<N_Drake>>]>>,
     <<[genres |-> <<>>, artists |-> <<N_Rocky, N_Drake>>]>>}

\* The tracks the backend variant is applied to.
BackendCandidates == {GodsPlan, Homage, Lullaby}

BackendArtistWeight == 500
BackendGenreWeight == 300

\* profileArtist.toLowerCase().includes(artist.toLowerCase()) ||
\* artist.toLowerCase().includes(profileArtist.toLowerCase())
backendArtistMatches(profile, track) ==
    LET names == [a \in DOMAIN track.artists |-> track.artists[a].name]
        matches(artist) ==
            \E q \in DOMAIN profile.artists :
                \/ includes(toLowerCase(profile.artists[q]), toLowerCase(artist))
                \/ includes(toLowerCase(artist), toLowerCase(profile.artists[q]))
    IN SelectSeq(names, matches)

\* calculateBasicSimilarity of AIMusicServiceBackend, which nothing calls.
backendCalculateBasicSimilarity(stored, track) ==
    IF stored = <<>>
    THEN [track |-> track, similarityScore |-> [num |-> 0, den |-> 1], reasons |-> <<>>]
    ELSE LET profile == stored[1]
             artistMatches == backendArtistMatches(profile, track)
             artist == Len(profile.artists) > 0 /\ Len(artistMatches) > 0
             genre == Len(profile.genres) > 0
             reasons ==
                 (IF artist THEN <<[text |-> "Matches artists", arg |-> artistMatches]>> ELSE <<>>)
                 \o (IF genre THEN <<Reason("Similar genre")>> ELSE <<>>)
             score == (IF artist THEN BackendArtistWeight ELSE 0)
                      + (IF genre THEN BackendGenreWeight ELSE 0)
         IN [track |-> track,
             similarityScore |-> [num |-> clamp(score, 1), den |-> 1000],
             reasons |-> slice(reasons, 3)]

\* The backend variant of the scorer applied to a track.
BackendCalculateSimilarity(stored, track) ==
    /\ backendSimilar' =
          <<[stored |-> stored, result |-> backendCalculateBasicSimilarity(stored, track)]>>
    /\ UNCHANGED <<tasteProfile, westOfUTC, analyzeResult, analyses, similar, scoredAgainst,
                   dedupVars, runVars, previewVars, restVars>>

NextScore ==
    \/ \E topTracks \in Histories :
          analyses < MaxScoreAnalyses /\ AnalyzeMusicTaste(topTracks)
    \/ \E track \in Candidates : CalculateSimilarity(track)
    \/ \E stored \in BackendProfiles, track \in BackendCandidates :
          BackendCalculateSimilarity(stored, track)

SpecScore == InitScore /\ [][NextScore]_vars

\* The profiler alone, called again and again.
NextProfile == \E topTracks \in Histories : AnalyzeMusicTaste(topTracks)

SpecProfile == InitScore /\ [][NextProfile]_vars

\* A history over four decades, and one with a track that lists two artists.
Collab == [Track("t9", <<"D","u","e","t">>, N_Drake, <<2016, 9, 2>>, 55)
              EXCEPT !.artists = <<[name |-> N_Drake], [name |-> N_Nobody]>>]
WideHistories == Histories \cup {<<Trap, Stone, Hooray, Homage>>, <<Stone, Collab>>}

\* analyzeMusicTaste on the wider histories, then the scorer.
NextTaste ==
    \/ \E topTracks \in WideHistories :
          analyses < MaxScoreAnalyses /\ AnalyzeMusicTaste(topTracks)
    \/ \E track \in Candidates : CalculateSimilarity(track)

SpecTaste == InitScore /\ [][NextTaste]_vars

(***************************************************************************)
(* Claims about the scorer                                                 *)
(***************************************************************************)
d2010s == <<"2","0","1","0","s">>

\* The profile of the scenario: artists {Drake}, decades {2010s}, genres
\* [Hip-Hop], popularity average 70.
DrakeProfile(p) ==
    /\ p.artists = <<N_Drake>>
    /\ p.decades = <<d2010s>>
    /\ p.genres = <<L_HipHop>>
    /\ p.popularity.average.num = 70 * p.popularity.average.den

\* C10: against the profile {Drake}, {2010s}, [Hip-Hop], average 70, "God's
\* Plan" by Drake (2018-01-19, popularity 75) scores 0.995 with the reasons
\* "By preferred artist", "From preferred decade (2010s)".
C10_GodsPlanScore ==
    (/\ scoredAgainst # <<>>
     /\ similar # <<>>
     /\ DrakeProfile(scoredAgainst[1])
     /\ similar[1].track = GodsPlan)
    => /\ similar[1].similarityScore.num * 1000 = 995 * similar[1].similarityScore.den
       /\ similar[1].reasons =
            <<Reason("By preferred artist"), DecadeReason(d2010s)>>

C10_Witness ==
    /\ scoredAgainst # <<>>
    /\ similar # <<>>
    /\ DrakeProfile(scoredAgainst[1])
    /\ similar[1].track = GodsPlan
    /\ Len(similar[1].reasons) = 2

(***************************************************************************)
(* Candidate generator: findSimilarTracks, as HomeScreen drives it         *)
(***************************************************************************)

\* The thresholds of the four query rounds, in thousandths.
GenreThreshold == 300
MoodThreshold == 200
ArtistThreshold == 100
PopularThreshold == 100
\* if (similarTracks.length < 20)
MinSimilar == 20
\* findSimilarTracks(topTracks.map(track => track.id), 200)
TasteLimit == 200

\* A limit small enough for slice(0, limit) to cut.
SmallLimit == 2

RunHistories == {<<>>, <<Trap>>, <<Stone>>}

\* "God's Plan" as a later search reports it, its popularity gone down.
GodsPlanLater == [GodsPlan EXCEPT !.popularity = 74]

\* What a Spotify search may answer with, besides failing.
Pages == {<<>>, <<GodsPlan>>, <<Hooray>>, <<Lullaby>>, <<Trap>>, <<Stone>>,
          <<GodsPlanLater>>, <<Trap, GodsPlan, Stone, Hooray, Banger>>}

\* n runs may be started; limits holds the limit arguments a findSimilarTracks
\* call may get (handleVibeFromTaste passes TasteLimit).
RunsInit(n, pages, limits) ==
    /\ RestIdle
    /\ ServiceInit
    /\ isAnalyzing = FALSE
    /\ homeInstance = 0
    /\ sessions = n
    /\ searchPages = pages
    /\ run \in {f \in [Runs -> {[IdleRun EXCEPT !.limit = l] : l \in limits}] :
                  \A r \in Runs : r > n => f[r].limit = TasteLimit}
    /\ storeFeedTracks = <<>>

threshold(phase) ==
    CASE phase = "genre" -> GenreThreshold
      [] phase = "mood" -> MoodThreshold
      [] phase = "artist" -> ArtistThreshold
      [] OTHER -> PopularThreshold

\* The exclusion filter left out.
filterExcluded_none(items, excludeTrackIds) == items

\* items.filter(track => !excludeTrackIds.includes(track.id))
filterExcluded(items, excludeTrackIds) ==
    LET kept(track) == ~arrayIncludes(excludeTrackIds, track.id)
    IN SelectSeq(items, kept)

\* A round whose search is not wrapped in try / catch.
catchesSearchError_notMood(phase) == phase # "mood"

\* Every searchTracks call of findSimilarTracks sits in its own try / catch.
catchesSearchError(phase) == phase \in {"genre", "mood", "artist", "popular"}

\* The loops of findSimilarTracks from the point where a search has been
\* handled: the next query of the running loop, else the next loop, whose
\* list is read from this.tasteProfile when the loop starts.
RECURSIVE advance(_, _, _, _)
advance(phase, rest, stored, count) ==
    IF rest # <<>>
    THEN [phase |-> phase, pending |-> <<[kind |-> phase, term |-> Head(rest)]>>,
          rest |-> Tail(rest)]
    ELSE IF phase = "genre" THEN advance("mood", stored[1].moods, stored, count)
    ELSE IF phase = "mood" THEN advance("artist", slice(stored[1].artists, 5), stored, count)
    ELSE IF phase = "artist" /\ count < MinSimilar
         THEN advance("popular", slice(stored[1].genres, 2), stored, count)
    ELSE [phase |-> "end", pending |-> <<>>, rest |-> <<>>]

\* The last entry of every track id is the one kept.
RECURSIVE removeDuplicateTracks_keepLast(_)
removeDuplicateTracks_keepLast(list) ==
    IF list = <<>> THEN <<>>
    ELSE LET back == removeDuplicateTracks_keepLast(Tail(list))
         IN IF \E i \in DOMAIN back : back[i].track.id = Head(list).track.id
            THEN back ELSE <<Head(list)>> \o back

\* private removeDuplicateTracks: the first entry of every track id.
RECURSIVE removeDuplicateTracks(_)
removeDuplicateTracks(list) ==
    IF list = <<>> THEN <<>>
    ELSE LET front == removeDuplicateTracks(SubSeq(list, 1, Len(list) - 1))
             last == list[Len(list)]
         IN IF \E i \in DOMAIN front : front[i].track.id = last.track.id
            THEN front ELSE Append(front, last)

scoreAtLeast(a, b) ==
    a.similarityScore.num * b.similarityScore.den >= b.similarityScore.num * a.similarityScore.den

\* .sort((a, b) => b.similarityScore - a.similarityScore), a stable sort
RECURSIVE sortByScoreDesc(_)
sortByScoreDesc(list) ==
    IF list = <<>> THEN <<>>
    ELSE LET front == sortByScoreDesc(SubSeq(list, 1, Len(list) - 1))
             e == list[Len(list)]
             k == Cardinality({i \in DOMAIN front : scoreAtLeast(front[i], e)})
         IN SubSeq(front, 1, k) \o <<e>> \o SubSeq(front, k + 1, Len(front))

tracksOf(list) == [i \in DOMAIN list |-> list[i].track]
idsOf(list) == [i \in DOMAIN list |-> list[i].id]

\* handleVibeFromTaste up to its first await: the button is disabled while
\* isAnalyzing, and getUserTopTracks is under way.
PressVibeFromTaste(r) ==
    /\ ~isAnalyzing
    /\ run[r].pc = "idle"
    /\ Cardinality({q \in Runs : run[q].pc # "idle"}) < sessions
    /\ \A q \in Runs : q < r => run[q].pc # "idle"
    /\ isAnalyzing' = TRUE
    /\ run' = [run EXCEPT ![r].pc = "topTracks", ![r].home = homeInstance]
    /\ UNCHANGED <<serviceVars, homeInstance, sessions, searchPages, storeFeedTracks, dedupVars, previewVars, restVars>>

\* getUserTopTracks has answered. No tracks: alert, return, finally. Else
\* analyzeMusicTaste stores the profile, and findSimilarTracks starts its first
\* loop and issues the first search.
TopTracksArrive(r, topTracks) ==
    /\ run[r].pc = "topTracks"
    /\ IF Len(topTracks) = 0
       THEN /\ run' = [run EXCEPT ![r].pc = "done"]
            /\ isAnalyzing' = IF run[r].home = homeInstance THEN FALSE ELSE isAnalyzing
            /\ UNCHANGED <<tasteProfile, analyzeResult, restVars>>
       ELSE LET call == analyzeMusicTaste(tasteProfile, topTracks, westOfUTC)
                stored == call.after
                first == advance("genre", slice(stored[1].genres, 3), stored, 0)
            IN /\ tasteProfile' = stored
               /\ analyzeResult' = Append(analyzeResult, call)
               /\ run' = [run EXCEPT ![r] =
                      [@ EXCEPT !.pc = "search", !.topTracks = topTracks,
                                !.excludeTrackIds = idsOf(topTracks),
                                !.phase = first.phase, !.rest = first.rest,
                                !.pending = first.pending, !.issued = 1]]
               /\ UNCHANGED isAnalyzing
    /\ UNCHANGED <<westOfUTC, analyses, similar, scoredAgainst, backendSimilar, homeInstance,
                   sessions, searchPages, storeFeedTracks, dedupVars, previewVars, restVars>>

\* The search in flight of run r ends, with a page or by throwing. Its tracks
\* are filtered, scored against this.tasteProfile and pushed; the loops go on
\* to the next search, or findSimilarTracks returns and handleVibeFromTaste
\* runs to its end.
SearchReturns(r, ok, items) ==
    /\ run[r].pc = "search"
    /\ LET cur == run[r]
           filteredTracks == filterExcluded(items, cur.excludeTrackIds)
           scored == [i \in DOMAIN filteredTracks |->
                        calculateBasicSimilarity(tasteProfile, filteredTracks[i], westOfUTC)]
           passes(s) == scoreAbove(s, threshold(cur.phase))
           similarTracks == IF ok THEN cur.similarTracks \o SelectSeq(scored, passes)
                            ELSE cur.similarTracks
           uncaught == ~ok /\ ~catchesSearchError(cur.phase)
           nxt == advance(cur.phase, cur.rest, tasteProfile, Len(similarTracks))
           ended == uncaught \/ nxt.phase = "end"
           result == IF uncaught THEN <<>>
                     ELSE slice(sortByScoreDesc(removeDuplicateTracks(similarTracks)), cur.limit)
           \* the genre, mood and artist loops end with this search
           primaryEnds == cur.phase \in {"genre", "mood", "artist"}
                          /\ nxt.phase \in {"popular", "end"}
           seen == [cur EXCEPT
                      !.similarTracks = similarTracks,
                      !.primaryEnd =
                          IF primaryEnds /\ ~uncaught
                          THEN <<[issued |-> cur.issued, raw |-> Len(similarTracks),
                                  unique |-> Cardinality({similarTracks[i].track.id :
                                                             i \in DOMAIN similarTracks})]>>
                          ELSE @,
                      !.allFailed = cur.allFailed /\ ~ok,
                      !.noneSurvived = cur.noneSurvived /\ (ok => filteredTracks = <<>>),
                      !.excludedIn = IF ok /\ Len(filteredTracks) < Len(items)
                                     THEN cur.excludedIn \cup {cur.phase} ELSE cur.excludedIn]
       IN /\ run' = [run EXCEPT ![r] =
                 IF ended
                 THEN [seen EXCEPT !.pc = "done", !.phase = "end", !.rest = <<>>,
                                   !.pending = <<>>, !.threw = uncaught, !.result = result]
                 ELSE [seen EXCEPT !.phase = nxt.phase, !.rest = nxt.rest,
                                   !.pending = nxt.pending, !.issued = cur.issued + 1]]
          \* setFeedTracks(newRecommendations)
          /\ storeFeedTracks' = IF ended /\ ~uncaught THEN tracksOf(result) ELSE storeFeedTracks
          \* finally { setIsAnalyzing(false) }, on the instance that started the run
          /\ isAnalyzing' = IF ended /\ cur.home = homeInstance THEN FALSE ELSE isAnalyzing
    /\ UNCHANGED <<serviceVars, homeInstance, sessions, searchPages, dedupVars, previewVars, restVars>>

\* exitVibeMode: navigation.reset to MainTabs mounts a new HomeScreen, whose
\* isAnalyzing starts false.
ResetToMainTabs ==
    /\ homeInstance < MaxRemounts
    /\ homeInstance' = homeInstance + 1
    /\ isAnalyzing' = FALSE
    /\ UNCHANGED <<serviceVars, run, sessions, searchPages, storeFeedTracks, dedupVars, previewVars, restVars>>

NextRuns ==
    \/ \E r \in Runs : PressVibeFromTaste(r)
    \/ \E r \in Runs, topTracks \in RunHistories : TopTracksArrive(r, topTracks)
    \/ \E r \in Runs, items \in searchPages : SearchReturns(r, TRUE, items)
    \/ \E r \in Runs : SearchReturns(r, FALSE, <<>>)
    \/ ResetToMainTabs

\* One taste-based run at a time.
InitSimilar == RunsInit(1, Pages, {SmallLimit, TasteLimit}) /\ DedupIdle /\ PreviewIdle

SpecSimilar == InitSimilar /\ [][NextRuns]_vars

\* One run whose searches may answer with the seven tracks of an album the
\* profile likes.
AlbumIds == <<"d1", "d2", "d3", "d4", "d5", "d6", "d7">>
Album == [k \in DOMAIN AlbumIds |->
            Track(AlbumIds[k], <<"T","a","k","e"," ","C","a","r","e">>, N_Drake, <<2011, 11, 15>>, 70)]

InitEscalate ==
    RunsInit(1, {<<>>, <<GodsPlan>>, Album}, {TasteLimit}) /\ DedupIdle /\ PreviewIdle

SpecEscalate == InitEscalate /\ [][NextRuns]_vars

\* Runs may overlap once a new HomeScreen is mounted.
InitOverlap == RunsInit(MaxRuns, {<<>>, <<GodsPlan>>}, {TasteLimit}) /\ westOfUTC = FALSE /\ DedupIdle /\ PreviewIdle

SpecOverlap == InitOverlap /\ [][NextRuns]_vars

(***************************************************************************)
(* Claims about the candidate generator                                    *)
(***************************************************************************)
AllRounds == {"genre", "mood", "artist", "popular"}

\* C3: no track that findSimilarTracks accumulates or returns has an id of
\* its exclude list, in whichever of the four query rounds it was found.
C3_ExclusionRespected ==
    \A r \in Runs :
        /\ \A i \in DOMAIN run[r].similarTracks :
              ~arrayIncludes(run[r].excludeTrackIds, run[r].similarTracks[i].track.id)
        /\ \A i \in DOMAIN run[r].result :
              ~arrayIncludes(run[r].excludeTrackIds, run[r].result[i].track.id)

\* A call has returned tracks although every round was answered with a page
\* holding an excluded track.
C3_Witness ==
    \E r \in Runs :
        /\ run[r].pc = "done"
        /\ run[r].excludedIn = AllRounds
        /\ Len(run[r].result) >= 2

\* The queries one call issues when no other call stores a profile meanwhile.
primaryQueries(profile) ==
    Len(slice(profile.genres, 3)) + Len(profile.moods) + Len(slice(profile.artists, 5))

\* C4: with a profile set, findSimilarTracks does not throw when searches
\* fail or nothing survives: after a failure the remaining queries are still
\* issued, and the result is empty when every query failed or every returned
\* track was excluded.
C4_FailuresTolerated ==
    \A r \in Runs :
        /\ ~run[r].threw
        /\ (run[r].pc = "done" /\ run[r].topTracks # <<>>) =>
              /\ run[r].issued >= primaryQueries(tasteProfile[1])
              /\ Len(run[r].similarTracks) < MinSimilar =>
                    run[r].issued = primaryQueries(tasteProfile[1])
                                    + Len(slice(tasteProfile[1].genres, 2))
              /\ run[r].allFailed => run[r].result = <<>>
              /\ run[r].noneSurvived => run[r].result = <<>>

\* Every search of a call failed, and all five of them were issued.
C4_Witness ==
    \E r \in Runs :
        /\ run[r].pc = "done"
        /\ run[r].topTracks # <<>>
        /\ run[r].allFailed
        /\ run[r].issued = 5

\* C9: every candidate a run has accumulated carries the score and reasons
\* it gets against the profile built from that run's own top tracks.
C9_ScoredAgainstOwnProfile ==
    \A r \in Runs :
        \A i \in DOMAIN run[r].similarTracks :
            run[r].similarTracks[i] =
                calculateBasicSimilarity(<<buildProfile(run[r].topTracks, westOfUTC)>>,
                                         run[r].similarTracks[i].track, westOfUTC)

(***************************************************************************)
(* Preview reconciler: the load effect, findDeezerPreviews and exitVibeMode *)
(* of VibeModeScreen; loadPlaylistTracks of PlaylistDetailScreen            *)
(***************************************************************************)

\* deezerService.searchTracks(query, 3) and (query, 1)
VibeSearchLimit == 3
PlaylistSearchLimit == 1

\* Tracks of the primary catalog, one of them with a preview of its own, and
\* one whose title differs from "God's Plan" by case and a trailing blank.
P_Trap == [Trap EXCEPT !.preview_url = "spT"]
Cover  == Track("t6", <<"g","o","d","'","s"," ","p","l","a","n"," ">>, N_Nobody, <<2019>>, 20)

\* The lists a feed or a playlist is made of.
VibeLists ==
    {<<>>, <<P_Trap, Stone>>, <<Stone, GodsPlan, Hooray>>, <<GodsPlan, P_Trap, Cover>>}
Playlists ==
    {<<>>, <<P_Trap>>, <<P_Trap, Stone>>, <<Stone, GodsPlan, P_Trap, Hooray, Lullaby>>}

\* Tracks of the secondary catalog.
D_TRAP        == [id |-> "dz1", title |-> <<"T","R","A","P">>, preview |-> "dzT"]
D_godsLive    == [id |-> "dz2", title |-> <<"G","o","d","'","s"," ","P","l","a","n"," ","(","L","i","v","e",")">>,
                  preview |-> "dzG"]
D_plan        == [id |-> "dz3", title |-> <<"p","l","a","n">>, preview |-> "dzP"]
D_stoneSilent == [id |-> "dz4", title |-> <<"S","t","o","n","e">>, preview |-> ""]
D_stone       == [id |-> "dz5", title |-> <<"s","t","o","n","e","s">>, preview |-> "dzS"]
D_hip         == [id |-> "dz6", title |-> <<"h","i","p","-","h","o","p"," ","h","o","o","r","a","y">>,
                  preview |-> "dzH"]

\* What a Deezer search may answer with; a failed search answers [].
DeezerPages ==
    {<<>>, <<D_TRAP>>, <<D_godsLive>>, <<D_stoneSilent>>, <<D_hip>>,
     <<D_plan, D_godsLive>>, <<D_TRAP, D_stone, D_stoneSilent>>}

DeezerAnswers(limit) == {page \in DeezerPages : Len(page) <= limit}

\* deezerTrack.title.toLowerCase().includes(track.name.toLowerCase()) ||
\* track.name.toLowerCase().includes(deezerTrack.title.toLowerCase())
titleMatches(deezerTrack, track) ==
    \/ includes(toLowerCase(deezerTrack.title), toLowerCase(track.name))
    \/ includes(toLowerCase(track.name), toLowerCase(deezerTrack.title))

\* The last match instead of the first.
bestMatchOf_last(deezerTracks, track) ==
    LET hits == {k \in DOMAIN deezerTracks : titleMatches(deezerTracks[k], track)}
    IN IF hits = {} THEN <<>>
       ELSE <<deezerTracks[CHOOSE k \in hits : \A m \in hits : k >= m]>>

\* deezerTracks.find(...): <<>> for undefined, else the first match.
bestMatchOf(deezerTracks, track) ==
    LET hits == {k \in DOMAIN deezerTracks : titleMatches(deezerTracks[k], track)}
    IN IF hits = {} THEN <<>>
       ELSE <<deezerTracks[CHOOSE k \in hits : \A m \in hits : k <= m]>>

\* if (bestMatch && bestMatch.preview)
hasPreview(bestMatch) == bestMatch # <<>> /\ bestMatch[1].preview # ""

\* The title of the match is taken over as well.
withPreview_titled(track, bestMatch) ==
    [track EXCEPT !.preview_url = bestMatch[1].preview, !.name = bestMatch[1].title]

\* { ...track, preview_url: bestMatch.preview }
withPreview(track, bestMatch) == [track EXCEPT !.preview_url = bestMatch[1].preview]

\* The new entry is put in front of the others.
push_front(list, entry) == <<entry>> \o list

\* tracksWithPreviews.push(trackWithPreview)
push(list, entry) == Append(list, entry)

\* A feed update that does not look at the mount flag.
updatesFeed_unguarded(tracksWithPreviews, mounted) == Len(tracksWithPreviews) > 0

\* if (tracksWithPreviews.length > 0 && isMountedRef.current)
updatesFeed(tracksWithPreviews, mounted) == Len(tracksWithPreviews) > 0 /\ mounted

\* findDeezerPreviews at the head of its loop, i counting from 1: past the
\* last track the function ends, with the flag down it returns, else it waits
\* out the delay.
loopHead(i, spotifyTracks, mounted) ==
    IF i > Len(spotifyTracks) THEN (IF mounted THEN "complete" ELSE "stopped")
    ELSE IF ~mounted THEN "stopped"
    ELSE "delay"

\* The screen is about to mount, or the playlist screen is about to load.
InitPreview ==
    /\ DedupIdle
    /\ RestIdle
    /\ ServiceIdle
    /\ isAnalyzing = FALSE /\ homeInstance = 0 /\ sessions = 0 /\ searchPages = {}
    /\ run = [r \in Runs |-> IdleRun]
    /\ isMountedRef = TRUE
    /\ feedTracks = <<>>
    /\ \/ /\ storeFeedTracks \in VibeLists
          /\ pass = [IdlePass EXCEPT !.pc = "mounting"]
          /\ playlist = IdlePlaylist
       \/ /\ storeFeedTracks = <<>>
          /\ pass = IdlePass
          /\ playlist = [IdlePlaylist EXCEPT !.pc = "loading"]

\* The part of the load effect behind the choice of spotifyTracks: the
\* duplicates by name go, both feeds are set, findDeezerPreviews is called and
\* runs to its first await.
showAndSearch(spotifyTracks) ==
    LET shown == removeDuplicateTracksByName(spotifyTracks)
    IN /\ feedTracks' = shown
       /\ storeFeedTracks' = shown
       /\ pass' = [pass EXCEPT !.pc = loopHead(1, shown, isMountedRef),
                               !.spotifyTracks = shown, !.i = 1]

\* The load effect of the mounting screen. An AI-generated vibe takes the
\* tracks of the store; any other awaits getRecommendationsForVibeMode.
LoadEffect(isAIGeneratedVibe) ==
    /\ pass.pc = "mounting"
    /\ IF isAIGeneratedVibe
       THEN showAndSearch(storeFeedTracks)
       ELSE /\ pass' = [pass EXCEPT !.pc = "loading"]
            /\ UNCHANGED <<feedTracks, storeFeedTracks, restVars>>
    /\ UNCHANGED <<isMountedRef, playlist, dedupVars, serviceVars, isAnalyzing,
                   homeInstance, sessions, searchPages, run, restVars>>

\* getRecommendationsForVibeMode has answered (it catches its search errors).
RecommendationsArrive(spotifyTracks) ==
    /\ pass.pc = "loading"
    /\ showAndSearch(spotifyTracks)
    /\ UNCHANGED <<isMountedRef, playlist, dedupVars, serviceVars, isAnalyzing,
                   homeInstance, sessions, searchPages, run, restVars>>

\* The 100 ms delay is over: with the flag down the function returns, else
\* the search for spotifyTracks[i] is issued.
DelayElapsed ==
    /\ pass.pc = "delay"
    /\ pass' = IF ~isMountedRef THEN [pass EXCEPT !.pc = "stopped"]
               ELSE [pass EXCEPT !.pc = "search", !.outstanding = @ + 1,
                                 !.searched = Append(@, pass.i)]
    /\ UNCHANGED <<isMountedRef, feedTracks, storeFeedTracks, playlist, dedupVars,
                   serviceVars, isAnalyzing, homeInstance, sessions, searchPages, run, restVars>>

\* The search in flight has answered: best match, push, feed update, and on
\* to the head of the loop.
DeezerReturns(deezerTracks) ==
    /\ pass.pc = "search"
    /\ LET spotifyTrack == pass.spotifyTracks[pass.i]
           bestMatch == bestMatchOf(deezerTracks, spotifyTrack)
           tracksWithPreviews ==
               IF hasPreview(bestMatch)
               THEN push(pass.tracksWithPreviews, withPreview(spotifyTrack, bestMatch))
               ELSE pass.tracksWithPreviews
           update == updatesFeed(tracksWithPreviews, isMountedRef)
       IN /\ feedTracks' = IF update THEN tracksWithPreviews ELSE feedTracks
          /\ storeFeedTracks' = IF update THEN tracksWithPreviews ELSE storeFeedTracks
          /\ pass' = [pass EXCEPT
                 !.pc = loopHead(pass.i + 1, pass.spotifyTracks, isMountedRef),
                 !.i = pass.i + 1,
                 !.tracksWithPreviews = tracksWithPreviews,
                 !.matches = IF hasPreview(bestMatch)
                             THEN Append(@, [index |-> pass.i, deezerTrack |-> bestMatch[1]])
                             ELSE @,
                 !.answers = Append(@, [index |-> pass.i, deezerTracks |-> deezerTracks]),
                 !.emitted = IF update THEN Append(@, tracksWithPreviews) ELSE @,
                 !.outstanding = @ - 1,
                 !.applied = IF update THEN Len(tracksWithPreviews) ELSE @,
                 !.setsAfterFlip = IF update /\ ~isMountedRef THEN @ + 1 ELSE @]
    /\ UNCHANGED <<isMountedRef, playlist, dedupVars, serviceVars, isAnalyzing,
                   homeInstance, sessions, searchPages, run, restVars>>

\* exitVibeMode, the pendingSwipe exit and the unmount cleanup: the flag goes
\* down and is never raised again.
ExitVibeMode ==
    /\ isMountedRef
    /\ pass.pc \notin {"absent", "mounting"}
    /\ isMountedRef' = FALSE
    /\ pass' = [pass EXCEPT !.atFlip =
                   <<[pc |-> pass.pc, searched |-> pass.searched,
                      feedTracks |-> feedTracks,
                      storeFeedTracks |-> storeFeedTracks]>>]
    /\ UNCHANGED <<feedTracks, storeFeedTracks, playlist, dedupVars, serviceVars,
                   isAnalyzing, homeInstance, sessions, searchPages, run, restVars>>

\* The end of loadPlaylistTracks once Promise.all has resolved.
settle(resolved) == removeDuplicateTracksByName(resolved)

\* getPlaylistTracks has answered (it returns [] on failure). The map starts
\* every callback at once: a track with a preview resolves to itself, every
\* other one has its search issued.
PlaylistTracksArrive(playlistTracks) ==
    /\ playlist.pc = "loading"
    /\ LET pending == {k \in DOMAIN playlistTracks : playlistTracks[k].preview_url = NoPreview}
       IN playlist' = [playlist EXCEPT
              !.pc = IF pending = {} THEN "done" ELSE "searching",
              !.playlistTracks = playlistTracks,
              !.pending = pending,
              !.searched = pending,
              !.resolved = playlistTracks,
              !.tracks = IF pending = {} THEN settle(playlistTracks) ELSE @]
    /\ UNCHANGED <<isMountedRef, feedTracks, pass, storeFeedTracks, dedupVars,
                   serviceVars, isAnalyzing, homeInstance, sessions, searchPages, run, restVars>>

\* One of the searches in flight has answered; the last one to answer lets
\* Promise.all resolve.
PlaylistSearchReturns(k, deezerTracks) ==
    /\ playlist.pc = "searching"
    /\ k \in playlist.pending
    /\ LET track == playlist.playlistTracks[k]
           bestMatch == bestMatchOf(deezerTracks, track)
           resolved == [playlist.resolved EXCEPT
                          ![k] = IF hasPreview(bestMatch)
                                 THEN withPreview(track, bestMatch) ELSE track]
           pending == playlist.pending \ {k}
       IN playlist' = [playlist EXCEPT
              !.pc = IF pending = {} THEN "done" ELSE "searching",
              !.pending = pending,
              !.resolved = resolved,
              !.matches = IF hasPreview(bestMatch)
                          THEN Append(@, [index |-> k, deezerTrack |-> bestMatch[1]])
                          ELSE @,
              !.answers = Append(@, [index |-> k, deezerTracks |-> deezerTracks]),
              !.tracks = IF pending = {} THEN settle(resolved) ELSE @]
    /\ UNCHANGED <<isMountedRef, feedTracks, pass, storeFeedTracks, dedupVars,
                   serviceVars, isAnalyzing, homeInstance, sessions, searchPages, run, restVars>>

NextPreview ==
    \/ \E isAIGeneratedVibe \in BOOLEAN : LoadEffect(isAIGeneratedVibe)
    \/ \E spotifyTracks \in VibeLists : RecommendationsArrive(spotifyTracks)
    \/ DelayElapsed
    \/ \E deezerTracks \in DeezerAnswers(VibeSearchLimit) : DeezerReturns(deezerTracks)
    \/ ExitVibeMode
    \/ \E playlistTracks \in Playlists : PlaylistTracksArrive(playlistTracks)
    \/ \E k \in 1..5, deezerTracks \in DeezerAnswers(PlaylistSearchLimit) :
          PlaylistSearchReturns(k, deezerTracks)

SpecPreview == InitPreview /\ [][NextPreview]_vars

\* The screen shows a card: the tracks are loaded (isLoading is false), the
\* feed is not empty and feedTracks[currentIndex] is a track.
showsTrack ==
    /\ isMountedRef
    /\ pass.pc \notin {"absent", "mounting", "loading"}
    /\ currentIndex < Len(feedTracks)

\* The updater of setCurrentIndex, with the feedTracks.length handleSwipe
\* has in its closure.
nextIndex(prev, length) == IF prev + 1 >= length THEN prev ELSE prev + 1

\* handleSwipe("left"): nothing is awaited before setCurrentIndex.
SwipeLeft ==
    /\ showsTrack
    /\ swiping = <<>>
    /\ currentIndex' = nextIndex(currentIndex, Len(feedTracks))
    /\ UNCHANGED <<swiping, dedupVars, serviceVars, runVars, previewVars, rec, request,
                   likes, audio>>

\* handleSwipe("right") up to its await of addTrackToTempPlaylist; the
\* feedTracks of the render it was called in stay in its closure.
SwipeRight ==
    /\ showsTrack
    /\ swiping = <<>>
    /\ swiping' = <<Len(feedTracks)>>
    /\ UNCHANGED <<currentIndex, dedupVars, serviceVars, runVars, previewVars, rec,
                   request, likes, audio>>

\* addTrackToTempPlaylist is over (it catches its errors): setCurrentIndex.
SwipeRightEnds ==
    /\ swiping # <<>>
    /\ currentIndex' = nextIndex(currentIndex, swiping[1])
    /\ swiping' = <<>>
    /\ UNCHANGED <<dedupVars, serviceVars, runVars, previewVars, rec, request, likes,
                   audio>>

\* The vibe screen alone, with the user swiping while the pass runs.
InitSwipe == InitPreview /\ pass.pc = "mounting"

NextSwipe ==
    \/ \E isAIGeneratedVibe \in BOOLEAN : LoadEffect(isAIGeneratedVibe)
    \/ \E spotifyTracks \in VibeLists : RecommendationsArrive(spotifyTracks)
    \/ DelayElapsed
    \/ \E deezerTracks \in DeezerAnswers(VibeSearchLimit) : DeezerReturns(deezerTracks)
    \/ ExitVibeMode
    \/ SwipeLeft
    \/ SwipeRight
    \/ SwipeRightEnds

SpecSwipe == InitSwipe /\ [][NextSwipe]_vars

(***************************************************************************)
(* Claims about the preview reconciler                                     *)
(***************************************************************************)
idAt(list, id) == CHOOSE k \in DOMAIN list : list[k].id = id
hasId(list, id) == \E k \in DOMAIN list : list[k].id = id

\* The tracks of list that came in (in input) with a preview of their own
\* are the very tracks that came in.
previewKept(input, list) ==
    \A k \in DOMAIN input :
        (input[k].preview_url # NoPreview /\ hasId(list, input[k].id))
            => list[idAt(list, input[k].id)] = input[k]

\* C5: for a track whose preview_url is already set no Deezer search is
\* issued, and the track stays as it is, in findDeezerPreviews as well as in
\* loadPlaylistTracks.
C5_PreviewNoOp ==
    /\ \A n \in DOMAIN pass.searched :
          pass.spotifyTracks[pass.searched[n]].preview_url = NoPreview
    /\ pass.pc \notin {"absent", "mounting", "loading"} =>
          previewKept(pass.spotifyTracks, feedTracks)
    /\ \A k \in playlist.searched :
          playlist.playlistTracks[k].preview_url = NoPreview
    /\ playlist.pc = "done" => previewKept(playlist.playlistTracks, playlist.tracks)

\* C6: once isMountedRef.current is false, findDeezerPreviews issues no
\* further search and makes no setLocalTracks / setFeedTracks call, so that
\* the feeds the pass had reached at the flip stay as they were.
C6_NothingAfterUnmount ==
    (~isMountedRef /\ pass.atFlip # <<>>) =>
        /\ pass.searched = pass.atFlip[1].searched
        /\ pass.setsAfterFlip = 0
        /\ pass.atFlip[1].pc # "loading" =>
              /\ feedTracks = pass.atFlip[1].feedTracks
              /\ storeFeedTracks = pass.atFlip[1].storeFeedTracks

\* The flag went down while a search was in flight, the search then answered
\* with a preview, and the pass has returned without showing it.
C6_Witness ==
    /\ ~isMountedRef
    /\ pass.atFlip # <<>>
    /\ pass.atFlip[1].pc = "search"
    /\ pass.pc = "stopped"
    /\ Len(pass.tracksWithPreviews) > pass.applied

\* C7: after a pass that ran to its end without being cancelled, every
\* track of the input list is in the resulting feed.
C7_AllTracksKept ==
    /\ pass.pc = "complete" =>
          \A k \in DOMAIN pass.spotifyTracks : hasId(feedTracks, pass.spotifyTracks[k].id)
    /\ playlist.pc = "done" =>
          \A k \in DOMAIN playlist.playlistTracks :
              hasId(playlist.tracks, playlist.playlistTracks[k].id)

\* C8: never more than 3 Deezer searches are outstanding, and a pass with at
\* least 3 tracks left to process has 3 of them outstanding.
C8_BatchesOfThree ==
    /\ pass.outstanding <= 3
    /\ Cardinality(playlist.pending) <= 3
    /\ (pass.pc = "search" /\ Len(pass.spotifyTracks) - pass.i + 1 >= 3) =>
          pass.outstanding = 3

(***************************************************************************)
(* Further claims about the scorer                                         *)
(***************************************************************************)
ArtistSpellings == {N_Drake, N_Rocky, N_Naughty, N_Nobody, n_drake}
ReleaseDates == {cand.release_date : cand \in Candidates}
Titles == {cand.name : cand \in Candidates}

\* The tracks that differ from track in one of artist, release date, title.
Variants(track) ==
    {[track EXCEPT !.artists = <<[name |-> a]>>] : a \in ArtistSpellings}
    \cup {[track EXCEPT !.release_date = d] : d \in ReleaseDates}
    \cup {[track EXCEPT !.name = nm] : nm \in Titles}

\* The signals that fire for track against profile.
fired(profile, track, west) ==
    (IF hasPreferredArtist(profile, track) THEN {"artist"} ELSE {})
    \cup (IF preferredDecade(profile, track, west) # <<>> THEN {"decade"} ELSE {})
    \cup (IF hasGenreKeyword(profile, track) THEN {"genre"} ELSE {})

oneMoreSignal(profile, track, variant, west) ==
    /\ fired(profile, track, west) \subseteq fired(profile, variant, west)
    /\ Cardinality(fired(profile, variant, west) \ fired(profile, track, west)) = 1

scoreGE(a, b) ==
    a.similarityScore.num * b.similarityScore.den >= b.similarityScore.num * a.similarityScore.den

\* C11: a candidate that differs from the scored one in a single field, and
\* for which one more of the artist, decade and genre signals fires, scores
\* at least as high against the same profile.
C11_ScoreMonotone ==
    (similar # <<>> /\ scoredAgainst # <<>>) =>
        \A v \in Variants(similar[1].track) :
            oneMoreSignal(scoredAgainst[1], similar[1].track, v, westOfUTC) =>
                scoreGE(calculateBasicSimilarity(scoredAgainst, v, westOfUTC), similar[1])

\* A track with two signals was scored, and a variant on which the third
\* fires too exists.
C11_Witness ==
    /\ similar # <<>>
    /\ scoredAgainst # <<>>
    /\ Len(similar[1].reasons) = 2
    /\ \E v \in Variants(similar[1].track) :
          /\ oneMoreSignal(scoredAgainst[1], similar[1].track, v, westOfUTC)
          /\ ~scoreGE(similar[1], calculateBasicSimilarity(scoredAgainst, v, westOfUTC))

\* C12: the similarityScore the scorer returns lies in [0, 1], also when the
\* three signals and the bonus add up to more than 1; so does the score of the
\* backend variant of the scorer.
C12_ScoreInUnitRange ==
    /\ similar # <<>> =>
          /\ similar[1].similarityScore.num >= 0
          /\ similar[1].similarityScore.num <= similar[1].similarityScore.den
    /\ backendSimilar # <<>> =>
          /\ backendSimilar[1].result.similarityScore.num >= 0
          /\ backendSimilar[1].result.similarityScore.num
                <= backendSimilar[1].result.similarityScore.den

\* The artist, decade and genre signals and the bonus all fired for a track of
\* popularity within [0, 100], and the score returned is 1.
C12_Witness ==
    /\ similar # <<>>
    /\ scoredAgainst # <<>>
    /\ fired(scoredAgainst[1], similar[1].track, westOfUTC) = {"artist", "decade", "genre"}
    /\ similar[1].track.popularity \in 0..100
    /\ similar[1].similarityScore.num = similar[1].similarityScore.den

SignalOrder == <<"artist", "decade", "genre">>

reasonText(signal) ==
    CASE signal = "artist" -> "By preferred artist"
      [] signal = "decade" -> "From preferred decade"
      [] OTHER -> "Contains preferred genre keywords"

\* C13: the reasons returned are at most 3, one per fired signal in the
\* order artist, decade, genre, and none for popularity or for the bonus.
C13_ReasonsPerSignal ==
    (similar # <<>> /\ scoredAgainst # <<>>) =>
        LET on(signal) == signal \in fired(scoredAgainst[1], similar[1].track, westOfUTC)
            expected == SelectSeq(SignalOrder, on)
        IN /\ Len(similar[1].reasons) <= 3
           /\ Len(similar[1].reasons) = Len(expected)
           /\ \A i \in DOMAIN similar[1].reasons :
                 similar[1].reasons[i].text = reasonText(expected[i])

\* All three signals fired, together with the bonus and a popularity part.
C13_Witness ==
    /\ similar # <<>>
    /\ scoredAgainst # <<>>
    /\ fired(scoredAgainst[1], similar[1].track, westOfUTC) = {"artist", "decade", "genre"}
    /\ popularityPart(scoredAgainst[1], similar[1].track) > 0
    /\ Len(similar[1].reasons) = 3

\* C14: two analyzeMusicTaste calls on the same non-empty list return equal
\* profiles, whatever profile was stored when each was made.
C14_ProfilingIdempotent ==
    \A i, j \in DOMAIN analyzeResult :
        (/\ analyzeResult[i].topTracks = analyzeResult[j].topTracks
         /\ analyzeResult[i].topTracks # <<>>)
        => /\ ~analyzeResult[i].threw
           /\ analyzeResult[i].profile # <<>>
           /\ analyzeResult[i].profile = analyzeResult[j].profile

\* The same list was analysed with another list's profile stored, and again
\* with its own profile stored.
C14_Witness ==
    \E i, j \in DOMAIN analyzeResult :
        /\ i < j
        /\ analyzeResult[i].topTracks = analyzeResult[j].topTracks
        /\ analyzeResult[i].topTracks # <<>>
        /\ analyzeResult[i].before # <<>>
        /\ analyzeResult[i].before # analyzeResult[i].profile
        /\ analyzeResult[j].before = analyzeResult[j].profile

\* C15: analyzeMusicTaste on an empty list throws and returns no profile, and
\* leaves the stored profile as the call found it.
C15_EmptyInputIsError ==
    /\ \A i \in DOMAIN analyzeResult :
          analyzeResult[i].topTracks = <<>> =>
              /\ analyzeResult[i].threw
              /\ analyzeResult[i].profile = <<>>
              /\ analyzeResult[i].after = analyzeResult[i].before
    /\ analyzeResult # <<>> => tasteProfile = analyzeResult[Len(analyzeResult)].after

\* The last call got an empty list while an earlier call's profile was stored.
C15_Witness ==
    /\ analyzeResult # <<>>
    /\ analyzeResult[Len(analyzeResult)].topTracks = <<>>
    /\ analyzeResult[Len(analyzeResult)].before # <<>>
    /\ tasteProfile # <<>>

\* C16: a track the reconciler enriched is the primary-catalog track it came
\* from in every field but preview_url, which is the preview of the match;
\* nothing else of the Deezer track is in it.
C16_OnlyPreviewTaken ==
    /\ \A n \in DOMAIN pass.tracksWithPreviews :
          pass.tracksWithPreviews[n] =
              [pass.spotifyTracks[pass.matches[n].index]
                  EXCEPT !.preview_url = pass.matches[n].deezerTrack.preview]
    /\ \A n \in DOMAIN playlist.matches :
          playlist.resolved[playlist.matches[n].index] =
              [playlist.playlistTracks[playlist.matches[n].index]
                  EXCEPT !.preview_url = playlist.matches[n].deezerTrack.preview]

\* The feed shows an enriched track whose match has another title than the
\* track.
C16_Witness ==
    \E n \in DOMAIN pass.tracksWithPreviews :
        /\ n <= Len(feedTracks)
        /\ feedTracks[n] = pass.tracksWithPreviews[n]
        /\ pass.matches[n].deezerTrack.title # feedTracks[n].name
        /\ feedTracks[n].preview_url = pass.matches[n].deezerTrack.preview

(***************************************************************************)
(* Further claims about the candidate generator                            *)
(***************************************************************************)
firstWithId(list, id) ==
    list[CHOOSE i \in DOMAIN list :
            /\ list[i].track.id = id
            /\ \A j \in DOMAIN list : list[j].track.id = id => i <= j]

\* C17: the list findSimilarTracks returns is sorted by non-increasing
\* score, holds every track id once, each with the entry accumulated first
\* for it, and is no longer than limit.
C17_RankedUniqueLimited ==
    \A r \in Runs :
        (run[r].pc = "done" /\ ~run[r].threw) =>
            LET result == run[r].result IN
            /\ Len(result) <= run[r].limit
            /\ \A i, j \in DOMAIN result :
                  i < j => /\ scoreAtLeast(result[i], result[j])
                           /\ result[i].track.id # result[j].track.id
            /\ \A i \in DOMAIN result :
                  result[i] = firstWithId(run[r].similarTracks, result[i].track.id)

\* A call returned limit entries out of more accumulated ids, among which an
\* id accumulated twice with different scores.
C17_Witness ==
    \E r \in Runs :
        /\ run[r].pc = "done"
        /\ Len(run[r].result) = run[r].limit
        /\ Cardinality({run[r].similarTracks[i].track.id : i \in DOMAIN run[r].similarTracks})
              > run[r].limit
        /\ \E i, j \in DOMAIN run[r].similarTracks :
              /\ i < j
              /\ run[r].similarTracks[i].track.id = run[r].similarTracks[j].track.id
              /\ run[r].similarTracks[i] # run[r].similarTracks[j]

\* C18: the "popular <genre>" queries are issued exactly when, once the
\* genre, mood and artist queries are all issued, fewer than 20 candidates
\* unique by id are accumulated, and never before.
C18_EscalationRule ==
    \A r \in Runs :
        /\ run[r].phase = "popular" => run[r].primaryEnd # <<>>
        /\ run[r].primaryEnd # <<>> =>
              (run[r].issued > run[r].primaryEnd[1].issued
                  <=> run[r].primaryEnd[1].unique < MinSimilar)

\* C20: a candidate whose primary artist name equals, up to letter case, a
\* name of the profile's artists gets the artist signal from the scorer:
\* "By preferred artist" is its first reason and its score is at least 0.5.
C20_ArtistUpToCase ==
    (similar # <<>> /\ scoredAgainst # <<>>) =>
        LET name == similar[1].track.artists[1].name
            known == scoredAgainst[1].artists
        IN (\E q \in DOMAIN known : toLowerCase(known[q]) = toLowerCase(name)) =>
              /\ similar[1].reasons # <<>>
              /\ similar[1].reasons[1].text = "By preferred artist"
              /\ 2 * similar[1].similarityScore.num >= similar[1].similarityScore.den

\* C21: the scorer gives the reason "Contains preferred genre keywords"
\* exactly when the candidate's title or its primary artist name contains,
\* letter case aside, one of the profile's genre labels.
C21_GenreKeywordRule ==
    (similar # <<>> /\ scoredAgainst # <<>>) =>
        LET title == toLowerCase(similar[1].track.name)
            artist == toLowerCase(similar[1].track.artists[1].name)
            labels == scoredAgainst[1].genres
        IN (\E i \in DOMAIN similar[1].reasons :
                similar[1].reasons[i].text = "Contains preferred genre keywords")
           <=> (\E g \in DOMAIN labels :
                   \/ includes(title, toLowerCase(labels[g]))
                   \/ includes(artist, toLowerCase(labels[g])))

\* The list the profile scored against was built from.
profiledTracks ==
    LET made == {n \in DOMAIN analyzeResult : ~analyzeResult[n].threw}
    IN analyzeResult[CHOOSE n \in made : \A m \in made : m <= n].topTracks

\* C22: a candidate with a parsable release date gets the decade reason
\* whenever its decade is the decade of at least one track of the profiled
\* list with a parsable release date, however many decades that list spans.
C22_DecadeOfAnyInput ==
    (similar # <<>> /\ scoredAgainst # <<>> /\ scoredAgainst = tasteProfile) =>
        LET year == getFullYear(similar[1].track.release_date, westOfUTC)
        IN (/\ year # <<>>
            /\ \E i \in DOMAIN profiledTracks :
                  LET y == getFullYear(profiledTracks[i].release_date, westOfUTC)
                  IN y # <<>> /\ y[1] \div 10 = year[1] \div 10)
           => \E k \in DOMAIN similar[1].reasons :
                 /\ similar[1].reasons[k].text = "From preferred decade"
                 /\ similar[1].reasons[k].arg = decadeStr(year[1])

\* The labels in the order they are first seen over the list, and the number
\* of tracks of the list that map to a label.
RECURSIVE labelsSeen(_)
labelsSeen(ts) ==
    IF ts = <<>> THEN <<>>
    ELSE LET front == labelsSeen(SubSeq(ts, 1, Len(ts) - 1))
             fresh(label) == \A i \in DOMAIN front : front[i] # label
         IN front \o SelectSeq(inferGenresFromTrack(ts[Len(ts)]), fresh)

tracksWith(ts, label) ==
    Cardinality({i \in DOMAIN ts : arrayIncludes(inferGenresFromTrack(ts[i]), label)})

\* C23: in a profile analyzeMusicTaste built, the genres are the labels of
\* the input tracks, at most 10, each track giving at least one; a label
\* with more tracks comes before one with fewer, whatever the number of
\* artists of the tracks, and of two labels with as many tracks the one seen
\* first comes first.
C23_GenresByTrackFrequency ==
    \A n \in DOMAIN analyzeResult :
        ~analyzeResult[n].threw =>
            LET ts == analyzeResult[n].topTracks
                seen == labelsSeen(ts)
                genres == analyzeResult[n].profile[1].genres
                place(label) == CHOOSE i \in DOMAIN seen : seen[i] = label
            IN /\ Len(genres) = Min(10, Len(seen))
               /\ \A i \in DOMAIN genres : arrayIncludes(seen, genres[i])
               /\ \A i, j \in DOMAIN genres :
                     i < j =>
                        \/ tracksWith(ts, genres[i]) > tracksWith(ts, genres[j])
                        \/ /\ tracksWith(ts, genres[i]) = tracksWith(ts, genres[j])
                           /\ place(genres[i]) < place(genres[j])
               /\ \A k \in DOMAIN seen :
                     ~arrayIncludes(genres, seen[k]) =>
                        \A i \in DOMAIN genres :
                           tracksWith(ts, genres[i]) >= tracksWith(ts, seen[k])

(***************************************************************************)
(* Further claims about the preview reconciler                             *)
(***************************************************************************)
\* The lower-cased title of the result contains, or is contained in, the
\* lower-cased title of the track.
titlesContain(title, name) ==
    LET t == toLowerCase(title)
        o == toLowerCase(name)
    IN \/ \E a \in 0..(Len(t) - Len(o)) : SubSeq(t, a + 1, a + Len(o)) = o
       \/ \E a \in 0..(Len(o) - Len(t)) : SubSeq(o, a + 1, a + Len(t)) = t

\* The preview a track is due from an answer: that of the first result, in
\* result order, whose title fits; NoPreview with no such result.
previewDue(deezerTracks, track) ==
    IF \E k \in DOMAIN deezerTracks : titlesContain(deezerTracks[k].title, track.name)
    THEN deezerTracks[CHOOSE k \in DOMAIN deezerTracks :
                        /\ titlesContain(deezerTracks[k].title, track.name)
                        /\ \A m \in 1..(k - 1) :
                              ~titlesContain(deezerTracks[m].title, track.name)].preview
    ELSE NoPreview

\* C19: a track without a preview whose search has answered carries the
\* preview of the first result, in result order, whose lower-cased title
\* contains or is contained in the track's lower-cased title; with no such
\* result (or a first such result without a preview) it carries none, and
\* the reconciler goes on to the next track all the same.
C19_FirstTitleMatch ==
    /\ \A n \in DOMAIN pass.answers :
          LET track == pass.spotifyTracks[pass.answers[n].index]
              due == previewDue(pass.answers[n].deezerTracks, track)
              got == {pass.tracksWithPreviews[m].preview_url :
                         m \in {q \in DOMAIN pass.tracksWithPreviews :
                                   pass.tracksWithPreviews[q].id = track.id}}
          IN /\ pass.answers[n].index = n
             /\ pass.i > n
             /\ track.preview_url = NoPreview =>
                   got = (IF due = NoPreview THEN {} ELSE {due})
    /\ \A n \in DOMAIN playlist.answers :
          LET track == playlist.playlistTracks[playlist.answers[n].index]
          IN /\ track.preview_url = NoPreview
             /\ playlist.answers[n].index \notin playlist.pending
             /\ playlist.resolved[playlist.answers[n].index].preview_url =
                   previewDue(playlist.answers[n].deezerTracks, track)

\* A track without a preview got the preview of the first of two fitting
\* results with different previews, and another track, whose answer held no
\* fitting result, got none.
C19_Witness ==
    /\ \E n \in DOMAIN pass.answers :
          LET track == pass.spotifyTracks[n]
              page == pass.answers[n].deezerTracks
          IN /\ track.preview_url = NoPreview
             /\ \E a, b \in DOMAIN page :
                   /\ a < b
                   /\ titlesContain(page[a].title, track.name)
                   /\ titlesContain(page[b].title, track.name)
                   /\ page[a].preview # page[b].preview
                   /\ \E m \in DOMAIN pass.tracksWithPreviews :
                         /\ pass.tracksWithPreviews[m].id = track.id
                         /\ pass.tracksWithPreviews[m].preview_url = page[a].preview
    /\ \E n \in DOMAIN pass.answers :
          LET track == pass.spotifyTracks[n]
              page == pass.answers[n].deezerTracks
          IN /\ track.preview_url = NoPreview
             /\ page # <<>>
             /\ \A k \in DOMAIN page : ~titlesContain(page[k].title, track.name)
             /\ \A m \in DOMAIN pass.tracksWithPreviews :
                   pass.tracksWithPreviews[m].id # track.id

\* list is part of a longer list, from its first entry on.
startsWith(longer, list) ==
    Len(list) <= Len(longer) /\ SubSeq(longer, 1, Len(list)) = list

\* C24: the lists a pass sets the feed to, one after a processed track and
\* before the pass is over, grow by at most one track put at the end, hold
\* the tracks resolved so far, and keep the order of the list the pass was
\* given; the feed is the last of them.
C24_IncrementalFeed ==
    LET emitted == pass.emitted IN
    /\ Len(emitted) <= Len(pass.answers)
    /\ \A n \in DOMAIN emitted :
          /\ startsWith(emitted[n], IF n = 1 THEN <<>> ELSE emitted[n - 1])
          /\ Len(emitted[n]) <= 1 + (IF n = 1 THEN 0 ELSE Len(emitted[n - 1]))
          /\ startsWith(pass.tracksWithPreviews, emitted[n])
          /\ \A i, j \in DOMAIN emitted[n] :
                i < j => /\ hasId(pass.spotifyTracks, emitted[n][i].id)
                         /\ hasId(pass.spotifyTracks, emitted[n][j].id)
                         /\ idAt(pass.spotifyTracks, emitted[n][i].id)
                               < idAt(pass.spotifyTracks, emitted[n][j].id)
    /\ emitted # <<>> =>
          /\ feedTracks = emitted[Len(emitted)]
          /\ storeFeedTracks = emitted[Len(emitted)]

\* With a search still to be made, the feed shows the second list of the
\* pass, which has one track more than the first.
C24_Witness ==
    /\ pass.pc \in {"delay", "search"}
    /\ Len(pass.emitted) >= 2
    /\ Len(pass.emitted[2]) = 2
    /\ Len(pass.emitted[1]) = 1
    /\ feedTracks = pass.emitted[2]
    /\ Len(pass.spotifyTracks) > Len(pass.answers)

(***************************************************************************)
(* SpotifyService: getRecommendationsForVibeMode and                       *)
(* getRecommendationsBasedOnTracks                                         *)
(***************************************************************************)
\* The searches of getRecommendationsForVibeMode: 8 terms with limit 30, then
\* 15 artists with limit 25.
VibeTerms == 8
VibeTermLimit == 30
PopularArtists == 15
PopularArtistLimit == 25
\* userTopTracks.slice(0, 50) without a vibe mode; uniqueTracks.slice(0, 300)
NoVibeCap == 50
RecommendationCap == 300
\* The searches of getRecommendationsBasedOnTracks: at most 10 artists with
\* limit 30, the genre terms with limit 25, the years with limit 20 and one
\* search by popularity with limit 20.
MaxTopArtists == 10
TopArtistLimit == 30
GenreTermLimit == 25
YearLimit == 20
PopularityLimit == 20

\* How many searches of one call fail.
MaxFailedSearches == 1

limits(n, limit) == [i \in 1..n |-> limit]

vibeSearches == limits(VibeTerms, VibeTermLimit) \o limits(PopularArtists, PopularArtistLimit)

\* What getRecommendationsBasedOnTracks takes from userTopTracks: the number
\* of first artists (topArtists), of genre terms (extractGenreTerms returns at
\* most 5) and of years (getPopularityRanges returns at most 3), and where
\* avgPopularity lies (NaN for an empty list).
TopTrackShapes ==
    {[artists |-> 0, genreTerms |-> 0, years |-> 0, avgPopularity |-> "NaN"],
     [artists |-> 1, genreTerms |-> 0, years |-> 1, avgPopularity |-> "between"],
     [artists |-> 12, genreTerms |-> 5, years |-> 3, avgPopularity |-> "above 70"]}

trackSearches(shape) ==
    limits(Min(shape.artists, MaxTopArtists), TopArtistLimit)
    \o limits(shape.genreTerms, GenreTermLimit)
    \o limits(shape.years, YearLimit)
    \o limits(IF shape.avgPopularity \in {"above 70", "below 30"} THEN 1 ELSE 0,
              PopularityLimit)

\* The answer of the k-th search of a call. shared: the same tracks for the
\* first searches; apart: other tracks for each; windows: every answer holds
\* some tracks of the one before; few: two tracks each. from tells the
\* entries of one track apart.
Catalogs == {"shared", "apart", "windows", "few"}

answered(catalog) ==
    CASE catalog = "shared" -> 3
      [] catalog = "apart" -> 11
      [] catalog = "windows" -> 16
      [] OTHER -> 23

firstId(catalog, k) ==
    CASE catalog = "shared" -> 1
      [] catalog = "apart" -> 100 * k + 1
      [] catalog = "windows" -> 20 * k + 1
      [] OTHER -> k

items(catalog, k, limit) ==
    IF k > answered(catalog) THEN <<>>
    ELSE [i \in 1..(IF catalog = "few" THEN 2 ELSE limit) |->
             [id |-> firstId(catalog, k) + i - 1, from |-> k]]

\* The entries of self[lo..hi] whose id is neither in met nor at an earlier
\* place of the range, by halves.
RECURSIVE firstById(_, _, _, _)
firstById(self, lo, hi, met) ==
    IF lo > hi THEN <<>>
    ELSE IF lo = hi THEN (IF self[lo].id \in met THEN <<>> ELSE <<self[lo]>>)
    ELSE LET mid == (lo + hi) \div 2
         IN firstById(self, lo, mid, met)
            \o firstById(self, mid + 1, hi, met \cup {self[n].id : n \in lo..mid})

\* The same with the later places of the range.
RECURSIVE lastById(_, _, _, _)
lastById(self, lo, hi, met) ==
    IF lo > hi THEN <<>>
    ELSE IF lo = hi THEN (IF self[lo].id \in met THEN <<>> ELSE <<self[lo]>>)
    ELSE LET mid == (lo + hi) \div 2
         IN lastById(self, lo, mid, met \cup {self[n].id : n \in (mid + 1)..hi})
            \o lastById(self, mid + 1, hi, met)

\* The entry met last is kept for an id.
filterFirstById_keepLast(allTracks) == lastById(allTracks, 1, Len(allTracks), {})

\* allTracks.filter((track, index, self) =>
\*     index === self.findIndex(t => t.id === track.id))
filterFirstById(allTracks) == firstById(allTracks, 1, Len(allTracks), {})

\* The end of both functions: uniqueTracks.slice(0, 300)
recommended(allTracks) == slice(filterFirstById(allTracks), RecommendationCap)

\* The loops are entered with the searches to make, or the function is over.
searching(fn, plan, catalog) ==
    [IdleRec EXCEPT !.fn = fn, !.plan = plan, !.catalog = catalog, !.k = 1,
                    !.pc = IF plan = <<>> THEN "done" ELSE "search",
                    !.result = IF plan = <<>> THEN recommended(<<>>) ELSE <<>>]

\* getRecommendationsForVibeMode(vibeMode, []), as VibeModeScreen calls it;
\* vibeMode is <<>> for null. The callers that pass top tracks pass a vibe
\* mode, and the top tracks are not read then.
GetRecommendationsForVibeMode(vibeMode, catalog) ==
    /\ rec.pc = "absent"
    /\ rec' = IF vibeMode = <<>>
              THEN [IdleRec EXCEPT !.fn = "no vibe", !.pc = "done",
                                   !.result = slice(<<>>, NoVibeCap)]
              ELSE searching("vibe", vibeSearches, catalog)
    /\ UNCHANGED <<dedupVars, serviceVars, runVars, previewVars, swipeVars, request,
                   likes, audio>>

GetRecommendationsBasedOnTracks(shape, catalog) ==
    /\ rec.pc = "absent"
    /\ rec' = searching("tracks", trackSearches(shape), catalog)
    /\ UNCHANGED <<dedupVars, serviceVars, runVars, previewVars, swipeVars, request,
                   likes, audio>>

\* The search in flight is over: its tracks are pushed, or its error is
\* caught; after the last search the function returns.
RecommendationSearchReturns(ok) ==
    /\ rec.pc = "search"
    /\ ok \/ rec.failed < MaxFailedSearches
    /\ LET found == IF ok THEN items(rec.catalog, rec.k, rec.plan[rec.k]) ELSE <<>>
           allTracks == rec.allTracks \o found
           over == rec.k = Len(rec.plan)
       IN rec' = [rec EXCEPT !.allTracks = allTracks,
                             !.k = @ + 1,
                             !.failed = IF ok THEN @ ELSE @ + 1,
                             !.pc = IF over THEN "done" ELSE "search",
                             !.result = IF over THEN recommended(allTracks) ELSE @]
    /\ UNCHANGED <<dedupVars, serviceVars, runVars, previewVars, swipeVars, request,
                   likes, audio>>

InitRecommend ==
    /\ DedupIdle /\ ServiceIdle /\ RunsIdle /\ PreviewIdle
    /\ RestIdle

NextRecommend ==
    \/ \E vibeMode \in {<<>>, <<"chill">>}, catalog \in Catalogs :
          GetRecommendationsForVibeMode(vibeMode, catalog)
    \/ \E shape \in TopTrackShapes, catalog \in Catalogs :
          GetRecommendationsBasedOnTracks(shape, catalog)
    \/ \E ok \in BOOLEAN : RecommendationSearchReturns(ok)

SpecRecommend == InitRecommend /\ [][NextRecommend]_vars

\* The place an id is met first at in the accumulated list.
metFirst(allTracks, id) ==
    CHOOSE i \in DOMAIN allTracks :
        allTracks[i].id = id /\ \A j \in 1..(i - 1) : allTracks[j].id # id

\* C25: a recommendation call that made its searches returns at most 300
\* tracks with pairwise distinct ids: the first 300 ids in the order the
\* searches accumulated them, each with the entry accumulated first.
C25_FirstDistinctCapped ==
    (rec.pc = "done" /\ rec.fn \in {"vibe", "tracks"}) =>
        LET result == rec.result
            allTracks == rec.allTracks
            returned == {result[n].id : n \in DOMAIN result}
            distinct == {allTracks[i].id : i \in DOMAIN allTracks}
        IN /\ Len(result) = Min(RecommendationCap, Cardinality(distinct))
           /\ Cardinality(returned) = Len(result)
           /\ \A n \in DOMAIN result : result[n] = allTracks[metFirst(allTracks, result[n].id)]
           /\ \A n \in 1..(Len(result) - 1) :
                 metFirst(allTracks, result[n].id) < metFirst(allTracks, result[n + 1].id)
           /\ \A i \in DOMAIN allTracks :
                 (result # <<>>
                  /\ i < metFirst(allTracks, result[Len(result)].id))
                     => allTracks[i].id \in returned

\* More than 300 ids were accumulated, some of them more than once, and 300
\* tracks are returned.
C25_Witness ==
    /\ rec.pc = "done"
    /\ Len(rec.result) = RecommendationCap
    /\ Cardinality({rec.allTracks[i].id : i \in DOMAIN rec.allTracks}) > RecommendationCap
    /\ \E j \in DOMAIN rec.allTracks :
          \E i \in 1..(j - 1) : rec.allTracks[i].id = rec.allTracks[j].id

(***************************************************************************)
(* Claims about the stricter deduplicator                                  *)
(***************************************************************************)
\* part is what is left of whole when some of its entries are taken out.
RECURSIVE isSubsequence(_, _)
isSubsequence(part, whole) ==
    IF part = <<>> THEN TRUE
    ELSE IF whole = <<>> THEN FALSE
    ELSE IF Head(part) = Head(whole) THEN isSubsequence(Tail(part), Tail(whole))
    ELSE isSubsequence(part, Tail(whole))

\* C26: removeDuplicateTracksByIdAndName returns a subsequence of its input
\* without two tracks of one id and without two tracks of one normalized
\* title; a track is left out only when a kept track before it has its id or
\* its normalized title; the result is no longer than that of
\* removeDuplicateTracksByName on the same input.
C26_UniqueByIdAndName ==
    dedupCalls = 1 =>
        LET kept(j) == \E n \in DOMAIN uniqueTracks : uniqueTracks[n] = tracks[j]
        IN /\ isSubsequence(uniqueTracks, tracks)
           /\ \A n, m \in DOMAIN uniqueTracks :
                 n # m => /\ uniqueTracks[n].id # uniqueTracks[m].id
                          /\ normalizedName(uniqueTracks[n]) # normalizedName(uniqueTracks[m])
           /\ \A i \in DOMAIN tracks :
                 ~kept(i) =>
                    \E j \in 1..(i - 1) :
                       /\ kept(j)
                       /\ \/ tracks[j].id = tracks[i].id
                          \/ normalizedName(tracks[j]) = normalizedName(tracks[i])
           /\ Len(uniqueTracks) <= Len(removeDuplicateTracksByName(tracks))

\* A track was left out for its id alone, and the result is shorter than that
\* of removeDuplicateTracksByName.
C26_Witness ==
    /\ dedupCalls = 1
    /\ Len(uniqueTracks) < Len(removeDuplicateTracksByName(tracks))
    /\ \E i \in DOMAIN tracks :
          /\ \A n \in DOMAIN uniqueTracks : uniqueTracks[n] # tracks[i]
          /\ \A j \in 1..(i - 1) : normalizedName(tracks[j]) # normalizedName(tracks[i])

(***************************************************************************)
(* Claims about the swipes of the vibe screen                              *)
(***************************************************************************)
\* C27: while the vibe screen is mounted with its tracks loaded and a feed
\* that is not empty, currentIndex is an index of feedTracks, whatever the
\* order of the swipes and of the feed updates of the pass: "No more tracks"
\* is not shown over a feed that holds tracks.
C27_IndexStaysValid ==
    (/\ isMountedRef
     /\ pass.pc \notin {"absent", "mounting", "loading"}
     /\ feedTracks # <<>>)
        => currentIndex < Len(feedTracks)

(***************************************************************************)
(* SpotifyService.makeRequest and refreshAccessToken                       *)
(***************************************************************************)
\* The calls of one chain are counted up to this number.
MaxCalls == 3

AccessTokens == {"a1", "a2"}
RefreshTokens == {"r1", "r2"}

\* What the API may answer to makeRequest's fetch, and the token endpoint to
\* refreshAccessToken's; "rejected" is a fetch that throws.
ApiAnswers == {"rejected", "401", "not ok", "no json", "empty", "json", "bad json"}
TokenAnswers ==
    {[kind |-> "rejected"], [kind |-> "not ok"], [kind |-> "no access_token"]}
    \cup {[kind |-> "ok", access_token |-> a, refresh_token |-> r] :
             a \in AccessTokens, r \in {<<>>} \cup {<<t>> : t \in RefreshTokens}}

InitRequest ==
    /\ DedupIdle /\ ServiceIdle /\ RunsIdle /\ PreviewIdle
    /\ SwipeIdle /\ RecIdle /\ LikesIdle /\ AudioIdle
    /\ request \in {[IdleRequest EXCEPT !.accessToken = a, !.refreshToken = r] :
                       a \in {<<>>} \cup {<<t>> : t \in AccessTokens},
                       r \in {<<>>} \cup {<<t>> : t \in RefreshTokens}}

\* What ends the call: a value returned or an error thrown.
returns(value) == [request EXCEPT !.pc = "returned", !.ended = value]
throws(message) == [request EXCEPT !.pc = "threw", !.ended = message]

\* makeRequest is entered, by a caller or by itself after a refresh, and
\* awaits getAccessToken.
entered == [request EXCEPT !.pc = "getAccessToken", !.sent = <<>>,
                           !.calls = Min(@ + 1, MaxCalls)]

MakeRequest ==
    /\ request.pc = "absent"
    /\ request' = entered
    /\ UNCHANGED <<dedupVars, serviceVars, runVars, previewVars, swipeVars, rec, likes,
                   audio>>

\* getAccessToken is over; a SecureStore that fails gives null.
AccessTokenRead(storeFails) ==
    /\ request.pc = "getAccessToken"
    /\ LET accessToken == IF storeFails THEN <<>> ELSE request.accessToken
       IN request' = IF accessToken = <<>> THEN throws("No access token available")
                     ELSE [request EXCEPT !.pc = "fetch", !.sent = accessToken]
    /\ UNCHANGED <<dedupVars, serviceVars, runVars, previewVars, swipeVars, rec, likes,
                   audio>>

\* The fetch of makeRequest is over.
FetchSettles(answer) ==
    /\ request.pc = "fetch"
    /\ request' =
          CASE answer = "rejected" -> throws("fetch failed")
            [] answer = "401" -> [request EXCEPT !.pc = "getRefreshToken"]
            [] answer = "not ok" -> throws("Spotify API error")
            [] answer \in {"no json", "empty"} -> returns("{}")
            [] answer = "json" -> returns("parsed")
            [] OTHER -> throws("SyntaxError")
    /\ UNCHANGED <<dedupVars, serviceVars, runVars, previewVars, swipeVars, rec, likes,
                   audio>>

\* getRefreshToken is over: without a refresh token refreshAccessToken
\* returns false and makeRequest throws.
RefreshTokenRead(storeFails) ==
    /\ request.pc = "getRefreshToken"
    /\ LET refreshToken == IF storeFails THEN <<>> ELSE request.refreshToken
       IN request' = IF refreshToken = <<>> THEN throws("Authentication failed")
                     ELSE [request EXCEPT !.pc = "refresh"]
    /\ UNCHANGED <<dedupVars, serviceVars, runVars, previewVars, swipeVars, rec, likes,
                   audio>>

\* The fetch of refreshAccessToken is over. With an access_token in the
\* answer the tokens are stored (a SecureStore error is only logged), the
\* function returns true and makeRequest calls itself.
RefreshSettles(answer, storeFails) ==
    /\ request.pc = "refresh"
    /\ request' =
          IF answer.kind # "ok" THEN throws("Authentication failed")
          ELSE [entered EXCEPT
                  !.accessToken = IF storeFails THEN @ ELSE <<answer.access_token>>,
                  !.refreshToken = IF storeFails \/ answer.refresh_token = <<>>
                                   THEN @ ELSE answer.refresh_token]
    /\ UNCHANGED <<dedupVars, serviceVars, runVars, previewVars, swipeVars, rec, likes,
                   audio>>

NextRequest ==
    \/ MakeRequest
    \/ \E storeFails \in BOOLEAN : AccessTokenRead(storeFails)
    \/ \E answer \in ApiAnswers : FetchSettles(answer)
    \/ \E storeFails \in BOOLEAN : RefreshTokenRead(storeFails)
    \/ \E answer \in TokenAnswers, storeFails \in BOOLEAN : RefreshSettles(answer, storeFails)

SpecRequest == InitRequest /\ [][NextRequest]_vars

\* Every await of the call is settled in the end, one way or the other.
SpecRequestFair == SpecRequest /\ WF_vars(NextRequest)

\* C28: a makeRequest call that is made ends, with a value returned or an
\* error thrown, whatever the API and the token endpoint answer.
C28_EveryCallEnds ==
    (request.pc # "absent") ~> (request.pc \in {"returned", "threw"})


(***************************************************************************)
(* useMusicStore: likeTrack, unlikeTrack, isTrackLiked                     *)
(***************************************************************************)
MaxLikeCalls == 4

\* Tracks handed to likeTrack: two ids, one of them carried by two objects
\* (the same track as two screens hold it).
StoneLive == [Stone EXCEPT !.popularity = 41]
LikeableTracks == {Trap, Stone, StoneLive}
LikeVibeModes == {<<>>, <<"chill">>}
UnlikeableIds == {"t1", "t2", "t7"}

\* likedTracks.filter(lt => lt.track.id !== trackId)
withoutTrack(likedTracks, trackId) ==
    SelectSeq(likedTracks, LAMBDA lt : lt.track.id # trackId)

liked_appended(likedTracks, likedTrack) == Append(likedTracks, likedTrack)

\* [...state.likedTracks.filter(lt => lt.track.id !== track.id), likedTrack]
liked(likedTracks, likedTrack) ==
    Append(withoutTrack(likedTracks, likedTrack.track.id), likedTrack)

\* get().likedTracks.some(lt => lt.track.id === trackId)
isTrackLiked(trackId) ==
    \E i \in DOMAIN likes.likedTracks : likes.likedTracks[i].track.id = trackId

\* new Date().toISOString() is the position of the call in the calls made.
LikeTrack(track, vibeMode) ==
    /\ Len(likes.calls) < MaxLikeCalls
    /\ LET likedTrack == [track |-> track, likedAt |-> Len(likes.calls) + 1,
                          vibeMode |-> vibeMode]
       IN likes' = [likedTracks |-> liked(likes.likedTracks, likedTrack),
                    calls |-> Append(likes.calls, [fn |-> "likeTrack", id |-> track.id])]
    /\ UNCHANGED <<dedupVars, serviceVars, runVars, previewVars, swipeVars,
                   rec, request, audio>>

UnlikeTrack(trackId) ==
    /\ Len(likes.calls) < MaxLikeCalls
    /\ likes' = [likedTracks |-> withoutTrack(likes.likedTracks, trackId),
                 calls |-> Append(likes.calls, [fn |-> "unlikeTrack", id |-> trackId])]
    /\ UNCHANGED <<dedupVars, serviceVars, runVars, previewVars, swipeVars,
                   rec, request, audio>>

InitLikes ==
    /\ DedupIdle /\ ServiceIdle /\ RunsIdle /\ PreviewIdle
    /\ SwipeIdle /\ RecIdle /\ RequestIdle /\ AudioIdle
    /\ likes = IdleLikes

NextLikes ==
    \/ \E track \in LikeableTracks, vibeMode \in LikeVibeModes : LikeTrack(track, vibeMode)
    \/ \E trackId \in UnlikeableIds : UnlikeTrack(trackId)

SpecLikes == InitLikes /\ [][NextLikes]_vars

\* The calls made for a track id, oldest first.
callsFor(trackId) == SelectSeq(likes.calls, LAMBDA c : c.id = trackId)

lastCallLiked(trackId) ==
    /\ callsFor(trackId) # <<>>
    /\ callsFor(trackId)[Len(callsFor(trackId))].fn = "likeTrack"

\* C29: whatever likeTrack and unlikeTrack calls were made, likedTracks has
\* at most one entry per track id, and isTrackLiked(id) holds exactly when
\* the latest like or unlike call for that id was likeTrack.
C29_OneEntryLastCallWins ==
    /\ \A i, j \in DOMAIN likes.likedTracks :
          likes.likedTracks[i].track.id = likes.likedTracks[j].track.id => i = j
    /\ \A trackId \in UnlikeableIds \cup {t.id : t \in LikeableTracks} :
          isTrackLiked(trackId) <=> lastCallLiked(trackId)

\* A track liked twice and still liked, next to one liked and then unliked.
C29_Witness ==
    /\ \E trackId \in UnlikeableIds :
          /\ Len(SelectSeq(callsFor(trackId), LAMBDA c : c.fn = "likeTrack")) >= 2
          /\ isTrackLiked(trackId)
    /\ \E trackId \in UnlikeableIds :
          /\ Len(callsFor(trackId)) >= 2
          /\ ~lastCallLiked(trackId)
          /\ ~isTrackLiked(trackId)


(***************************************************************************)
(* AudioService.loadTrack, called by the active-card effect                *)
(***************************************************************************)
MaxLoadCalls == 3

\* The sound of the k-th loadTrack call, once createAsync has made it.
soundOf(k) == k

\* Lines 36-42, run without a pause once this.sound has been dealt with: a
\* track without preview_url returns false, any other awaits createAsync.
fromPreviewCheck(call) ==
    IF ~call.preview_url
    THEN [call EXCEPT !.pc = "returned", !.result = <<FALSE>>]
    ELSE [call EXCEPT !.pc = "createAsync"]

\* loadTrack is called: initialize() runs up to its await (or returns at
\* once) and loadTrack awaits it.
LoadTrack(preview_url) ==
    /\ Len(audio.calls) < MaxLoadCalls
    /\ audio' = [audio EXCEPT !.calls =
                    Append(@, [pc |-> "initialize", preview_url |-> preview_url,
                               setsMode |-> ~audio.isInitialized,
                               unloading |-> <<>>, result |-> <<>>])]
    /\ UNCHANGED <<dedupVars, serviceVars, runVars, previewVars, swipeVars,
                   rec, request, likes>>

\* await this.initialize() settles (modeSet: setAudioModeAsync resolved);
\* the call goes on to line 31 and stops at its next await or returns.
InitializeSettles(k, modeSet) ==
    /\ k \in DOMAIN audio.calls
    /\ audio.calls[k].pc = "initialize"
    /\ LET call == audio.calls[k]
       IN audio' = [audio EXCEPT
               !.isInitialized = IF call.setsMode /\ modeSet THEN TRUE ELSE @,
               !.calls[k] = IF audio.sound # <<>>
                            THEN [call EXCEPT !.pc = "unloadAsync",
                                              !.unloading = audio.sound]
                            ELSE fromPreviewCheck(call)]
    /\ UNCHANGED <<dedupVars, serviceVars, runVars, previewVars, swipeVars,
                   rec, request, likes>>

\* await this.sound.unloadAsync() settles: resolved, this.sound = null and
\* the call goes on; rejected, the catch returns false.
UnloadSettles(k, unloaded) ==
    /\ k \in DOMAIN audio.calls
    /\ audio.calls[k].pc = "unloadAsync"
    /\ LET call == audio.calls[k]
       IN IF unloaded
          THEN audio' = [audio EXCEPT
                   !.loaded = @ \ {call.unloading[1]},
                   !.sound = <<>>,
                   !.calls[k] = fromPreviewCheck(call)]
          ELSE audio' = [audio EXCEPT
                   !.calls[k] = [call EXCEPT !.pc = "returned", !.result = <<FALSE>>]]
    /\ UNCHANGED <<dedupVars, serviceVars, runVars, previewVars, swipeVars,
                   rec, request, likes>>

\* await Audio.Sound.createAsync(...) settles: resolved, this.sound = sound
\* and the call returns true; rejected, the catch returns false.
CreateSettles(k, created) ==
    /\ k \in DOMAIN audio.calls
    /\ audio.calls[k].pc = "createAsync"
    /\ LET call == audio.calls[k]
       IN IF created
          THEN audio' = [audio EXCEPT
                   !.loaded = @ \cup {soundOf(k)},
                   !.sound = <<soundOf(k)>>,
                   !.calls[k] = [call EXCEPT !.pc = "returned", !.result = <<TRUE>>]]
          ELSE audio' = [audio EXCEPT
                   !.calls[k] = [call EXCEPT !.pc = "returned", !.result = <<FALSE>>]]
    /\ UNCHANGED <<dedupVars, serviceVars, runVars, previewVars, swipeVars,
                   rec, request, likes>>

InitAudio ==
    /\ DedupIdle /\ ServiceIdle /\ RunsIdle /\ PreviewIdle
    /\ SwipeIdle /\ RecIdle /\ RequestIdle /\ LikesIdle
    /\ audio = IdleAudio

NextAudio ==
    \/ \E preview_url \in BOOLEAN : LoadTrack(preview_url)
    \/ \E k \in 1..MaxLoadCalls, modeSet \in BOOLEAN : InitializeSettles(k, modeSet)
    \/ \E k \in 1..MaxLoadCalls, unloaded \in BOOLEAN : UnloadSettles(k, unloaded)
    \/ \E k \in 1..MaxLoadCalls, created \in BOOLEAN : CreateSettles(k, created)

SpecAudio == InitAudio /\ [][NextAudio]_vars

allLoadsCompleted ==
    /\ audio.calls # <<>>
    /\ \A k \in DOMAIN audio.calls : audio.calls[k].pc = "returned"

\* C30: once every loadTrack call that was made has returned, however the
\* calls interleaved, the sounds still loaded are at most the one held in
\* this.sound; every other sound the calls created has been unloaded.
C30_OnlyHeldSoundLoaded ==
    allLoadsCompleted =>
        /\ Cardinality(audio.loaded) <= 1
        /\ \A s \in audio.loaded : audio.sound = <<s>>

====
